---- MODULE Spec2Model ----
(***************************************************************************)
(* Model of ducktools.lazyimporter: import specifications, the grouper     *)
(* that compiles a specification list into a lookup table, and the lazy    *)
(* container that resolves a name on its first attribute read.             *)
(*                                                                         *)
(* Strings that the code takes apart (module names) are sequences of       *)
(* tokens: "." is one token and every identifier is one token, so that     *)
(* "..ex_mod.ex_submod" is << ".", ".", "ex_mod", ".", "ex_submod" >>.     *)
(* Bound names and attribute names are plain strings.                      *)
(***************************************************************************)
EXTENDS Integers, Sequences, FiniteSets, TLC

\* Python's None, where the code stores None in a string field.
None == "<None>"

Dot == "."

(***************************************************************************)
(* Bounds of the model.                                                    *)
(***************************************************************************)
\* longest specification list given to LazyImporter(...)
MaxImports == 2
\* how many times do_import may run for the specification of one name
MaxCalls == 2

(***************************************************************************)
(* str helpers used by ImportBase.                                         *)
(***************************************************************************)
RECURSIVE lstrip(_)
lstrip(s) ==
    IF s = << >> THEN s
    ELSE IF Head(s) = Dot THEN lstrip(Tail(s)) ELSE s

RECURSIVE CountLeadingDots(_)
CountLeadingDots(s) ==
    IF s = << >> THEN 0
    ELSE IF Head(s) # Dot THEN 0 ELSE 1 + CountLeadingDots(Tail(s))

\* index of the first "." token of s, 0 when there is none
RECURSIVE FirstDot(_, _)
FirstDot(s, i) ==
    IF i > Len(s) THEN 0
    ELSE IF s[i] = Dot THEN i ELSE FirstDot(s, i + 1)

\* the text of one dot-free stretch of tokens: "" when it is empty
SegText(s) == IF s = << >> THEN "" ELSE s[1]

\* str.split("."): the sequence of segments, empty segments kept
RECURSIVE split(_)
split(s) ==
    LET d == FirstDot(s, 1) IN
    IF d = 0 THEN << SegText(s) >>
    ELSE << SegText(SubSeq(s, 1, d - 1)) >> \o split(SubSeq(s, d + 1, Len(s)))

\* ".".join(segs)
RECURSIVE join(_)
join(segs) ==
    IF segs = << >> THEN << >>
    ELSE IF Len(segs) = 1 THEN (IF segs[1] = "" THEN << >> ELSE << segs[1] >>)
    ELSE (IF segs[1] = "" THEN << >> ELSE << segs[1] >>) \o << Dot >> \o join(Tail(segs))

\* segs[1:]
Rest(segs) == IF segs = << >> THEN << >> ELSE Tail(segs)

\* str.isidentifier() on a bound name
isidentifier(name) == name \notin {"", "##invalid_identifier##", None}

(***************************************************************************)
(* ImportBase properties.                                                  *)
(***************************************************************************)
module_name_noprefix(imp) == lstrip(imp.module_name)

\* import_level that tells relative from absolute only
import_level_flag(imp) == IF imp.module_name # << >> /\ Head(imp.module_name) = Dot THEN 1 ELSE 0

import_level(imp) == CountLeadingDots(imp.module_name)

module_basename(imp) == split(module_name_noprefix(imp))[1]

submodule_names(imp) == Rest(split(module_name_noprefix(imp)))

except_import_level(imp) == CountLeadingDots(imp.except_module)

except_module_noprefix(imp) == lstrip(imp.except_module)

except_module_basename(imp) == split(except_module_noprefix(imp))[1]

except_module_names(imp) == Rest(split(except_module_noprefix(imp)))

(***************************************************************************)
(* The interpreter's import system, as far as the importer relies on it:   *)
(* the modules that can be found, sys.modules, and the builtin __import__. *)
(* The modules are those of the test-suite (ex_mod, ex_mod.ex_submod), one *)
(* fallback module, one module that is absent and one whose body raises an *)
(* error that is not an ImportError.                                       *)
(***************************************************************************)
ex_mod == << "ex_mod" >>
ex_submod == << "ex_mod", Dot, "ex_submod" >>
ex_other == << "ex_mod", Dot, "ex_other" >>
tomli == << "tomli" >>
fakemod == << "fakemod" >>
ex_fakemod == << "ex_mod", Dot, "fakemod" >>
badmod == << "badmod" >>

\* modules the finders can locate
OnDisk == {ex_mod, ex_submod, ex_other, tomli, badmod}

\* modules with a __path__ (packages)
IsPackage(p) == p = ex_mod

\* modules whose body raises an error other than ImportError when executed
BodyRaises(p) == p = badmod

\* names a module's body defines
StaticAttrs(p) ==
    IF p = ex_mod THEN {"name"}
    ELSE IF p = ex_submod THEN {"name", "name2"}
    ELSE IF p = ex_other THEN {"name"}
    ELSE IF p = tomli THEN {"name"}
    ELSE {}

\* objects: a module object, or the object a module's body bound to a name
ModuleObj(p) == [kind |-> "module", path |-> p, name |-> ""]
AttrObj(p, n) == [kind |-> "attr", path |-> p, name |-> n]
NoObj == [kind |-> "none", path |-> << >>, name |-> ""]

\* the dotted name of the submodule n of module p
Child(p, n) == p \o << Dot, n >>

\* the dotted name made of the first i segments
PrefixPath(segs, i) == join(SubSeq(segs, 1, i))

\* hasattr(module, n): w.att holds the submodules bound on their parent
hasattr(w, p, n) == n \in StaticAttrs(p) \/ Child(p, n) \in w.att

\* getattr(module, n)
getattr(w, p, n) ==
    IF n \in StaticAttrs(p) THEN [exc |-> "none", obj |-> AttrObj(p, n)]
    ELSE IF Child(p, n) \in w.att THEN [exc |-> "none", obj |-> ModuleObj(Child(p, n))]
    ELSE [exc |-> "AttributeError", obj |-> NoObj]

\* the import system's state held in a result
World(r) == [sys |-> r.sys, att |-> r.att]

\* results of the import system: the exception raised ("none" when the call
\* returned), the module returned, and the state afterwards
ImportFailed(e, w) == [exc |-> e, obj |-> NoObj, sys |-> w.sys, att |-> w.att]
Imported(p, w) == [exc |-> "none", obj |-> ModuleObj(p), sys |-> w.sys, att |-> w.att]

\* importlib._bootstrap._find_and_load for every prefix of a dotted name:
\* a module found in sys.modules is used as it is, a module that is not
\* found raises ModuleNotFoundError (an ImportError), a module whose body
\* raises is not kept, a loaded submodule is bound on its parent.
RECURSIVE gcd_import(_, _, _)
RECURSIVE find_and_load(_, _, _, _, _)
find_and_load(w, segs, i, p, parent) ==
    IF p \in w.sys THEN gcd_import(w, segs, i + 1)
    ELSE IF p \notin OnDisk \/ (i > 1 /\ ~IsPackage(parent))
      THEN ImportFailed("ImportError", w)
    ELSE IF BodyRaises(p) THEN ImportFailed("RuntimeError", w)
    ELSE gcd_import([sys |-> w.sys \cup {p},
                     att |-> IF i > 1 THEN w.att \cup {p} ELSE w.att],
                    segs, i + 1)

gcd_import(w, segs, i) ==
    IF i > Len(segs) THEN Imported(join(segs), w)
    ELSE find_and_load(w, segs, i, PrefixPath(segs, i), PrefixPath(segs, i - 1))

\* importlib._bootstrap._handle_fromlist: a name of the fromlist that the
\* package lacks is tried as a submodule; only "not found" is swallowed.
RECURSIVE handle_fromlist(_, _, _)
RECURSIVE fromlist_submodule(_, _, _)
fromlist_submodule(r, p, fromlist) ==
    IF r.exc \in {"none", "ImportError"} THEN handle_fromlist(World(r), p, Tail(fromlist))
    ELSE ImportFailed(r.exc, r)

handle_fromlist(w, p, fromlist) ==
    IF fromlist = << >> \/ ~IsPackage(p) THEN Imported(p, w)
    ELSE IF hasattr(w, p, Head(fromlist)) THEN handle_fromlist(w, p, Tail(fromlist))
    ELSE fromlist_submodule(gcd_import(w, split(Child(p, Head(fromlist))), 1), p, fromlist)

\* the globals a container was given: none, or those of a module of a package
NoGlobals == [given |-> FALSE, package |-> << >>]
GlobalsOf(package) == [given |-> TRUE, package |-> package]

\* the segments of a dotted name, none for the empty name
Segments(name) == IF name = << >> THEN << >> ELSE split(name)

\* the package a relative import of the given level starts from:
\* package.rsplit(".", level - 1)[0]
RelativeBase(psegs, level) == SubSeq(psegs, 1, Len(psegs) - (level - 1))

\* the end of __import__: the module named is loaded (or failed to load);
\* with a fromlist the module itself is returned, else the top one
import_loaded(r, abs, top, fromlist) ==
    IF r.exc # "none" THEN ImportFailed(r.exc, r)
    ELSE IF fromlist = << >> THEN Imported(top, r)
    ELSE handle_fromlist(World(r), abs, fromlist)

import_resolved(w, base, nsegs, fromlist) ==
    import_loaded(gcd_import(w, base \o nsegs, 1),
                  join(base \o nsegs),
                  IF nsegs = << >> THEN join(base)
                  ELSE PrefixPath(base \o nsegs, Len(base) + 1),
                  fromlist)

import_checked(w, psegs, nsegs, fromlist, level) ==
    IF level > 0 /\ Len(psegs) < level THEN ImportFailed("ImportError", w)
    ELSE IF level = 0 /\ nsegs = << >> THEN ImportFailed("ValueError", w)
    ELSE import_resolved(w, IF level > 0 THEN RelativeBase(psegs, level) ELSE << >>,
                         nsegs, fromlist)

\* builtins.__import__(name, globals=globs, fromlist=fromlist, level=level)
\* in world w
import_(w, name, globs, fromlist, level) ==
    IF level > 0 /\ ~globs.given THEN ImportFailed("KeyError", w)
    ELSE import_checked(w, Segments(globs.package), Segments(name), fromlist, level)

(***************************************************************************)
(* Import specifications.  Every specification is a record with the same   *)
(* fields; a field a class does not have holds None, << >> or {}.          *)
(***************************************************************************)
Imp(cls, module_name, asname) ==
    [cls |-> cls, module_name |-> module_name, asname |-> asname,
     attrib_name |-> None, attrib_names |-> << >>,
     except_module |-> << >>, attribute_name |-> None,
     except_attribute |-> None, submodules |-> {}]

\* ModuleImport_valid that checks the bound name only
ModuleImport_valid_name(module_name, asname) == ~(asname # None /\ ~isidentifier(asname))

\* ModuleImport.__init__: the constructor raises ValueError unless this holds
ModuleImport_valid(module_name, asname) ==
    /\ ~(CountLeadingDots(module_name) > 0 /\ asname = None)
    /\ ~(asname # None /\ ~isidentifier(asname))

ModuleImport(module_name, asname) == Imp("ModuleImport", module_name, asname)

FromImport_valid(module_name, attrib_name, asname) ==
    isidentifier(IF asname # None THEN asname ELSE attrib_name)

FromImport(module_name, attrib_name, asname) ==
    [Imp("FromImport", module_name, IF asname # None THEN asname ELSE attrib_name)
       EXCEPT !.attrib_name = attrib_name]

\* an item of MultiFromImport.attrib_names: a str, or an (attribute, asname) pair
Str(n) == [str |-> TRUE, attr |-> n, asname |-> n]
Pair(a, n) == [str |-> FALSE, attr |-> a, asname |-> n]

\* MultiFromImport.asnames
asnames(imp) == [i \in 1..Len(imp.attrib_names) |-> imp.attrib_names[i].asname]

MultiFromImport_valid(module_name, attrib_names) ==
    \A i \in 1..Len(attrib_names) : isidentifier(attrib_names[i].asname)

MultiFromImport(module_name, attrib_names) ==
    [Imp("MultiFromImport", module_name, None) EXCEPT !.attrib_names = attrib_names]

TryExceptImport_valid(module_name, except_module, asname) == isidentifier(asname)

TryExceptImport(module_name, except_module, asname) ==
    [Imp("TryExceptImport", module_name, asname) EXCEPT !.except_module = except_module]

TryExceptFromImport(module_name, attribute_name, except_module, except_attribute, asname) ==
    [Imp("TryExceptFromImport", module_name, asname)
       EXCEPT !.except_module = except_module,
              !.attribute_name = attribute_name,
              !.except_attribute = except_attribute]

\* _SubmoduleImports.__init__
SubmoduleImports(module_name, submodules) ==
    [Imp("_SubmoduleImports", IF module_name = "" THEN << >> ELSE << module_name >>, None)
       EXCEPT !.submodules = submodules]

(***************************************************************************)
(* do_import of every class.  w is the import system's state before the    *)
(* call.  The result holds the exception raised ("none" when the call      *)
(* returned), the returned dict (bound name -> object), the import         *)
(* system's state afterwards and the names __import__ was called with,     *)
(* in call order.                                                          *)
(***************************************************************************)
EmptyDict == [n \in {} |-> NoObj]

\* data of a call that raised: the local dict as far as it was filled, which
\* the caller never receives
RaisedWith(e, w, log, partial) ==
    [exc |-> e, data |-> partial, sys |-> w.sys, att |-> w.att, log |-> log]

Raised(e, w, log) == RaisedWith(e, w, log, EmptyDict)

Returned(data, w, log) == [exc |-> "none", data |-> data, sys |-> w.sys, att |-> w.att, log |-> log]

\* "return {key: obj}"
ReturnOne(key, obj, w, log) == Returned([n \in {key} |-> obj], w, log)

\* getattr(obj, n) for any object: only modules have attributes here
getattr_obj(w, obj, n) ==
    IF obj.kind = "module" THEN getattr(w, obj.path, n)
    ELSE [exc |-> "AttributeError", obj |-> NoObj]

\* "for submod in names: mod = getattr(mod, submod)"
RECURSIVE WalkSubmodules(_, _, _)
RECURSIVE WalkNext(_, _, _)
WalkNext(w, g, names) ==
    IF g.exc # "none" THEN g ELSE WalkSubmodules(w, g.obj, Tail(names))

WalkSubmodules(w, obj, names) ==
    IF names = << >> THEN [exc |-> "none", obj |-> obj]
    ELSE WalkNext(w, getattr_obj(w, obj, Head(names)), names)

\* "return {key: <what a getattr gave>}", or the AttributeError of the getattr
ReturnFetched(key, g, w, log) ==
    IF g.exc # "none" THEN Raised(g.exc, w, log) ELSE ReturnOne(key, g.obj, w, log)

\* ModuleImport.do_import after the __import__ call
ModuleImport_imported(imp, r, log) ==
    IF r.exc # "none" THEN Raised(r.exc, r, log)
    ELSE IF imp.asname # None
      THEN ReturnFetched(imp.asname, WalkSubmodules(r, r.obj, submodule_names(imp)), r, log)
    ELSE ReturnOne(module_basename(imp), r.obj, r, log)

ModuleImport_do_import(imp, globs, w) ==
    ModuleImport_imported(imp,
        import_(w, module_name_noprefix(imp), globs, << >>, import_level(imp)),
        << module_name_noprefix(imp) >>)

\* FromImport.do_import after the __import__ call
FromImport_imported(imp, r, log) ==
    IF r.exc # "none" THEN Raised(r.exc, r, log)
    ELSE ReturnFetched(imp.asname, getattr_obj(r, r.obj, imp.attrib_name), r, log)

FromImport_do_import(imp, globs, w) ==
    FromImport_imported(imp,
        import_(w, module_name_noprefix(imp), globs, << imp.attrib_name >>, import_level(imp)),
        << module_name_noprefix(imp) >>)

\* the loop over attrib_names: the dict built so far, or the first error
RECURSIVE FetchAttribs(_, _, _, _)
RECURSIVE FetchNext(_, _, _, _, _)
FetchNext(w, obj, items, acc, g) ==
    IF g.exc # "none" THEN [exc |-> g.exc, data |-> acc]
    ELSE FetchAttribs(w, obj, Tail(items), [n \in {Head(items).asname} |-> g.obj] @@ acc)

FetchAttribs(w, obj, items, acc) ==
    IF items = << >> THEN [exc |-> "none", data |-> acc]
    ELSE FetchNext(w, obj, items, acc, getattr_obj(w, obj, Head(items).attr))

\* "return from_imports", or the AttributeError raised in the loop
MultiFromImport_fetched(f, r, log) ==
    IF f.exc # "none" THEN RaisedWith(f.exc, r, log, f.data)
    ELSE Returned(f.data, r, log)

\* MultiFromImport.do_import after the __import__ call
MultiFromImport_imported(imp, r, log) ==
    IF r.exc # "none" THEN Raised(r.exc, r, log)
    ELSE MultiFromImport_fetched(FetchAttribs(r, r.obj, imp.attrib_names, EmptyDict), r, log)

MultiFromImport_do_import(imp, globs, w) ==
    MultiFromImport_imported(imp,
        import_(w, module_name_noprefix(imp), globs, asnames(imp), import_level(imp)),
        << module_name_noprefix(imp) >>)

\* the walk over the submodule names of the module that was imported
TryExcept_walk(key, used, names, log) ==
    IF used.exc # "none" THEN Raised(used.exc, used, log)
    ELSE ReturnFetched(key, WalkSubmodules(used, used.obj, names), used, log)

\* TryExceptImport_catches that takes the fallback whatever the primary did
TryExceptImport_catches_always(exc) == TRUE

\* "except ImportError:" of TryExceptImport.do_import
TryExceptImport_catches(exc) == exc = "ImportError"

\* TryExceptImport.do_import after the first __import__ call
TryExceptImport_tried(imp, globs, r) ==
    IF TryExceptImport_catches(r.exc)
      THEN TryExcept_walk(imp.asname,
               import_(World(r), except_module_noprefix(imp), globs, << >>,
                       except_import_level(imp)),
               except_module_names(imp),
               << module_name_noprefix(imp), except_module_noprefix(imp) >>)
      ELSE TryExcept_walk(imp.asname, r, submodule_names(imp), << module_name_noprefix(imp) >>)

TryExceptImport_do_import(imp, globs, w) ==
    TryExceptImport_tried(imp, globs,
        import_(w, module_name_noprefix(imp), globs, << >>, import_level(imp)))

\* "attrib = getattr(mod, ...)" on the module the walk ended at
TryExceptFrom_fetch(key, walk, attrib, w, log) ==
    IF walk.exc # "none" THEN Raised(walk.exc, w, log)
    ELSE ReturnFetched(key, getattr_obj(w, walk.obj, attrib), w, log)

\* the walk over the submodule names, then the attribute
TryExceptFrom_walk(key, used, names, attrib, log) ==
    IF used.exc # "none" THEN Raised(used.exc, used, log)
    ELSE TryExceptFrom_fetch(key, WalkSubmodules(used, used.obj, names), attrib, used, log)

\* TryExceptFromImport_catches as a bare "except:"
TryExceptFromImport_catches_any(exc) == exc # "none"

\* "except ImportError:" of TryExceptFromImport.do_import
TryExceptFromImport_catches(exc) == exc = "ImportError"

\* TryExceptFromImport.do_import after the first __import__ call
TryExceptFromImport_tried(imp, globs, r) ==
    IF TryExceptFromImport_catches(r.exc)
      THEN TryExceptFrom_walk(imp.asname,
               import_(World(r), except_module_noprefix(imp), globs, << >>,
                       except_import_level(imp)),
               except_module_names(imp), imp.except_attribute,
               << module_name_noprefix(imp), except_module_noprefix(imp) >>)
      ELSE TryExceptFrom_walk(imp.asname, r, submodule_names(imp), imp.attribute_name,
                              << module_name_noprefix(imp) >>)

TryExceptFromImport_do_import(imp, globs, w) ==
    TryExceptFromImport_tried(imp, globs,
        import_(w, module_name_noprefix(imp), globs, << >>, import_level(imp)))

\* a str as a module name
Tokens(text) == IF text = "" THEN << >> ELSE << text >>

RECURSIVE ImportSubmodules(_, _, _, _, _)

\* ImportSubmodules_imported that skips a submodule that fails to load
ImportSubmodules_skip(r, order, globs, level, log) ==
    ImportSubmodules(World(r), Tail(order), globs, level, log)

\* one round of the loop over the submodules, after its __import__ call
ImportSubmodules_imported(r, order, globs, level, log) ==
    IF r.exc # "none" THEN Raised(r.exc, r, log)
    ELSE ImportSubmodules(World(r), Tail(order), globs, level, log)

\* "for submod in self.submodules: __import__(submod, ...)": a set is
\* iterated in an order the program does not choose; order lists the set.
ImportSubmodules(w, order, globs, level, log) ==
    IF order = << >> THEN Returned(EmptyDict, w, log)
    ELSE ImportSubmodules_imported(import_(w, Head(order), globs, << >>, level),
                                   order, globs, level, Append(log, Head(order)))

\* _SubmoduleImports.do_import after the __import__ of the base module
SubmoduleImports_imported(imp, r, log) ==
    IF r.exc # "none" THEN Raised(r.exc, r, log)
    ELSE ReturnOne(SegText(imp.module_name), r.obj, r, log)

\* _SubmoduleImports.do_import after the loop over the submodules
SubmoduleImports_base(imp, globs, s) ==
    IF s.exc # "none" THEN s
    ELSE SubmoduleImports_imported(imp,
             import_(World(s), Tokens(module_basename(imp)), globs, << >>, import_level(imp)),
             Append(s.log, Tokens(module_basename(imp))))

SubmoduleImports_do_import(imp, globs, w, order) ==
    SubmoduleImports_base(imp, globs,
        ImportSubmodules(w, order, globs, import_level(imp), << >>))

\* the orders in which a set of submodule names can be iterated
Orders(S) ==
    {o \in [1..Cardinality(S) -> S] : \A i, j \in 1..Cardinality(S) : o[i] = o[j] => i = j}

\* importer.do_import(globs=...), whatever the class of importer
do_import(imp, globs, w, order) ==
    CASE imp.cls = "ModuleImport" -> ModuleImport_do_import(imp, globs, w)
      [] imp.cls = "FromImport" -> FromImport_do_import(imp, globs, w)
      [] imp.cls = "MultiFromImport" -> MultiFromImport_do_import(imp, globs, w)
      [] imp.cls = "TryExceptImport" -> TryExceptImport_do_import(imp, globs, w)
      [] imp.cls = "TryExceptFromImport" -> TryExceptFromImport_do_import(imp, globs, w)
      [] imp.cls = "_SubmoduleImports" -> SubmoduleImports_do_import(imp, globs, w, order)

(***************************************************************************)
(* _ImporterGrouper.group_importers: the lookup table of a container.      *)
(***************************************************************************)
EmptyTable == [n \in {} |-> Imp("ModuleImport", << >>, None)]

\* importers[key] = imp
Put(importers, key, imp) == [n \in {key} |-> imp] @@ importers

\* "if asname := getattr(imp, 'asname', None)": the classes that have the
\* attribute, and a value that is neither None nor empty
has_asname(imp) ==
    /\ imp.cls \in {"ModuleImport", "FromImport", "TryExceptImport", "TryExceptFromImport"}
    /\ imp.asname # None
    /\ imp.asname # ""

\* "elif asnames := getattr(imp, 'asnames', None)"
has_asnames(imp) == imp.cls = "MultiFromImport" /\ imp.attrib_names # << >>

\* NameTaken that never finds the name: a later declaration overwrites
NameTaken_never(tbl, asname) == FALSE

\* "if asname in importers: raise ValueError" of the two bound-name branches
NameTaken(tbl, asname) == asname \in DOMAIN tbl

\* the loop over the asnames of a MultiFromImport
RECURSIVE GroupAsnames(_, _, _)
GroupAsnames(importers, imp, names) ==
    IF names = << >> THEN [exc |-> "none", importers |-> importers]
    ELSE IF NameTaken(importers, Head(names))
      THEN [exc |-> "ValueError", importers |-> importers]
    ELSE GroupAsnames(Put(importers, Head(names), imp), imp, Tail(names))

\* GroupPlainExisting that keeps an entry of another class without raising
GroupPlainExisting_keep(tbl, imp) ==
    LET base == module_basename(imp)
        importer == tbl[base]
    IN  IF importer.cls = "_SubmoduleImports" /\ module_name_noprefix(imp) # Tokens(base)
          THEN [exc |-> "none",
                importers |-> Put(tbl, base,
                    [importer EXCEPT !.submodules = @ \cup {module_name_noprefix(imp)}])]
          ELSE [exc |-> "none", importers |-> tbl]

\* GroupPlainExisting that records the last submodule only
GroupPlainExisting_replace(tbl, imp) ==
    LET base == module_basename(imp)
        importer == tbl[base]
    IN  IF importer.cls = "_SubmoduleImports"
          THEN [exc |-> "none",
                importers |-> Put(tbl, base,
                    [importer EXCEPT !.submodules = {module_name_noprefix(imp)}])]
          ELSE [exc |-> "ValueError", importers |-> tbl]

\* the branch for "import x" and "import x.y": what the grouper does when
\* the base name is already a key of the table
GroupPlainExisting(importers, imp) ==
    LET base == module_basename(imp)
        importer == importers[base]
    IN  IF importer.cls = "_SubmoduleImports"
          THEN IF module_name_noprefix(imp) # Tokens(base)
                 THEN [exc |-> "none",
                       importers |-> Put(importers, base,
                           [importer EXCEPT !.submodules = @ \cup {module_name_noprefix(imp)}])]
                 ELSE [exc |-> "none", importers |-> importers]
          ELSE [exc |-> "ValueError", importers |-> importers]

GroupPlain(importers, imp) ==
    LET base == module_basename(imp)
    IN  IF base \notin DOMAIN importers
          THEN [exc |-> "none",
                importers |-> Put(importers, base,
                    IF imp.module_name = Tokens(base)
                      THEN SubmoduleImports(base, {})
                      ELSE SubmoduleImports(base, {module_name_noprefix(imp)}))]
          ELSE GroupPlainExisting(importers, imp)

\* GroupOne that keeps the first declaration of a bound name
GroupOne_first_wins(importers, imp, globs) ==
    IF import_level(imp) > 0 /\ ~globs.given
      THEN [exc |-> "ValueError", importers |-> importers]
    ELSE IF has_asname(imp)
      THEN IF NameTaken(importers, imp.asname)
             THEN [exc |-> "none", importers |-> importers]
             ELSE [exc |-> "none", importers |-> Put(importers, imp.asname, imp)]
    ELSE IF has_asnames(imp) THEN GroupAsnames(importers, imp, asnames(imp))
    ELSE IF imp.cls = "ModuleImport" THEN GroupPlain(importers, imp)
    ELSE [exc |-> "TypeError", importers |-> importers]

\* GroupOne without the check of relative specifications
GroupOne_any_level(importers, imp, globs) ==
    IF has_asname(imp)
      THEN IF NameTaken(importers, imp.asname)
             THEN [exc |-> "ValueError", importers |-> importers]
             ELSE [exc |-> "none", importers |-> Put(importers, imp.asname, imp)]
    ELSE IF has_asnames(imp) THEN GroupAsnames(importers, imp, asnames(imp))
    ELSE IF imp.cls = "ModuleImport" THEN GroupPlain(importers, imp)
    ELSE [exc |-> "TypeError", importers |-> importers]

\* one iteration of "for imp in inst._imports"
GroupOne(importers, imp, globs) ==
    IF import_level(imp) > 0 /\ ~globs.given
      THEN [exc |-> "ValueError", importers |-> importers]
    ELSE IF has_asname(imp)
      THEN IF NameTaken(importers, imp.asname)
             THEN [exc |-> "ValueError", importers |-> importers]
             ELSE [exc |-> "none", importers |-> Put(importers, imp.asname, imp)]
    ELSE IF has_asnames(imp) THEN GroupAsnames(importers, imp, asnames(imp))
    ELSE IF imp.cls = "ModuleImport" THEN GroupPlain(importers, imp)
    ELSE [exc |-> "TypeError", importers |-> importers]

RECURSIVE GroupFrom(_, _, _)
GroupFrom(importers, imports_, globs) ==
    IF imports_ = << >> THEN [exc |-> "none", importers |-> importers]
    ELSE
      LET r == GroupOne(importers, Head(imports_), globs)
      IN  IF r.exc # "none" THEN [exc |-> r.exc, importers |-> EmptyTable]
          ELSE GroupFrom(r.importers, Tail(imports_), globs)

group_importers(imports_, globs) == GroupFrom(EmptyTable, imports_, globs)

(***************************************************************************)
(* State: one LazyImporter and the import system it runs in.               *)
(***************************************************************************)
VARIABLES
    imports,      \* LazyImporter._imports: the specification list
    globals_,     \* LazyImporter._globals
    importers,    \* LazyImporter._importers: unset until the grouper has run
    dict,         \* the names bound as direct attributes: name -> object
    sys_modules,  \* sys.modules: the dotted names of the loaded modules
    attached,     \* the loaded submodules bound as attribute of their parent
    ncalls,       \* per name: how often do_import of its specification ran
    last,         \* the outcome of the last operation
    builtins_import, \* builtins.__import__: the function import statements call
    cap,          \* the capture_imports instances: their fields and the position
                  \* of their with-statement
    namespace,    \* the globals of the module that holds the container, in
                  \* insertion order
    block,        \* the names bound by the import statements run in capture blocks
    funcs,        \* the handlers get_module_funcs returned, with their dir_data
    threads       \* per thread: how far its read of the container has come

\* the state of the container and of the import system
container_vars == << imports, globals_, importers, dict, sys_modules, attached, ncalls >>

\* the state of the capture scopes, of the module around the container and
\* of the threads that read it
module_vars == << builtins_import, cap, namespace, block, funcs, threads >>

vars == << imports, globals_, importers, dict, sys_modules, attached, ncalls, last,
           builtins_import, cap, namespace, block, funcs, threads >>

\* the threads that read the container concurrently
Threads == {"T1", "T2"}

\* a thread that is not reading: at is its position in the read, name what
\* it reads, importers and import_data the locals of __getattr__, keys the
\* items the setattr loop has not reached, grouped whether the thread ran the
\* grouper, exc and value how the read ended
NoRead ==
    [at |-> "idle", name |-> None, importers |-> << >>, import_data |-> << >>,
     keys |-> {}, grouped |-> FALSE, exc |-> "none",
     value |-> [kind |-> "none", path |-> << >>, name |-> ""]]

\* no thread is reading
NoReads == [t \in Threads |-> NoRead]

\* the names read on the container
Names == {"a", "b", "name", "name2", "ex_mod", "tomli", "missing_attribute"}

Unset == [set |-> FALSE, table |-> EmptyTable]

\* IsSet that stores nothing on the instance
IsSet_forgotten(table) == [set |-> FALSE, table |-> EmptyTable]

\* "setattr(inst, self._name, importers)": the instance holds the table
IsSet(table) == [set |-> TRUE, table |-> table]

world == [sys |-> sys_modules, att |-> attached]

Outcome(op, name, exc, value, called, log, loaded, bound) ==
    [op |-> op, name |-> name, exc |-> exc, value |-> value, called |-> called,
     log |-> log, loaded |-> loaded, bound |-> bound]

NoCall(op, name, exc, value) == Outcome(op, name, exc, value, FALSE, << >>, {}, {})

\* builtins.__import__ as the interpreter provides it
RealImport == "builtins.__import__"

\* a function other code put in place of builtins.__import__
OtherImport == "replacement"

\* the capture_imports instances of the module
Capturers == {"A", "B"}

\* capture_imports.__init__: the fields of a new instance; at is the
\* position of the with-statement that uses it, calls counts the
\* placeholders its recording function has made
NewCapture(auto_export) ==
    [auto_export |-> auto_export, globs |-> None, captured_imports |-> << >>,
     import_func |-> None, previous_import_func |-> None,
     calls |-> 0, at |-> "pending"]

\* a dict in insertion order: the keys, and the value of each
EmptyNamespace == [keys |-> << >>, val |-> [k \in {} |-> NoObj]]

\* no handlers made yet
NoFuncs == [made |-> FALSE, module_name |-> None, dir_data |-> << >>]

\* a module that only declares the container: no capture block is used and
\* no handlers are made
PlainModule ==
    /\ builtins_import = RealImport
    /\ cap = [c \in Capturers |-> NewCapture(FALSE)]
    /\ namespace = EmptyNamespace
    /\ block = << >>
    /\ funcs = NoFuncs
    /\ threads = NoReads

\* specification lists of at most MaxImports entries drawn from U
ListsOver(U) == UNION {[1..n -> U] : n \in 0..MaxImports}

\* a specification of the list is relative
HasRelative(imps) == \E i \in 1..Len(imps) : import_level(imps[i]) > 0

\* the globals given to the container: none, or (they matter to relative
\* specifications only) those of a module of package ex_mod
GlobalsFor(imps) == IF HasRelative(imps) THEN {NoGlobals, GlobalsOf(ex_mod)} ELSE {NoGlobals}

\* the eager_process argument of the constructor, as the outcome names it
EagerProcess(eager) == IF eager THEN "eager_process" ELSE None

\* Constructing that never reads "self._importers"
Constructing_lazy(imps, globs, eager, g) ==
    /\ imports = imps
    /\ globals_ = globs
    /\ importers = Unset
    /\ dict = EmptyDict
    /\ sys_modules = {}
    /\ attached = {}
    /\ ncalls = [n \in Names |-> 0]
    /\ last = NoCall("init", EagerProcess(eager), "none", NoObj)

\* the container after __init__; g is what the grouper gives for the list
Constructing(imps, globs, eager, g) ==
    /\ imports = imps
    /\ globals_ = globs
    /\ importers = IF eager /\ g.exc = "none" THEN IsSet(g.importers) ELSE Unset
    /\ dict = EmptyDict
    /\ sys_modules = {}
    /\ attached = {}
    /\ ncalls = [n \in Names |-> 0]
    /\ last = NoCall("init", EagerProcess(eager), IF eager THEN g.exc ELSE "none", NoObj)

\* LazyImporter.__init__(imports, globs=globs, eager_process=eager)
InitWith(U) ==
    \E imps \in ListsOver(U), eager \in BOOLEAN : \E globs \in GlobalsFor(imps) :
      Constructing(imps, globs, eager, group_importers(imps, globs))

\* the constructor returned: there is a container to operate on
Constructed == ~(last.op = "init" /\ last.exc # "none")

(***************************************************************************)
(* LazyImporter.__getattr__ and the attribute read that leads to it.       *)
(***************************************************************************)
\* "self._importers": _ImporterGrouper.__get__ runs the grouper unless the
\* instance already holds the table
get_importers ==
    IF importers.set THEN [exc |-> "none", importers |-> importers.table]
    ELSE group_importers(imports, globals_)

\* the KeyError of the table, not translated
MissingNameError_KeyError == "KeyError"

\* the exception __getattr__ raises for a name the table lacks
MissingNameError == "AttributeError"

\* lookup_importer that takes an entry whatever the name
lookup_importer_any(tbl, name) == tbl[CHOOSE k \in DOMAIN tbl : TRUE]

\* "importer = self._importers[name]"
lookup_importer(tbl, name) == tbl[name]

\* bind_import_data that binds what do_import had fetched when it raised
bind_import_data_partial(d, r) == r.data @@ d

\* bind_import_data that binds one of the names only
bind_import_data_one(d, r) ==
    IF r.exc # "none" \/ DOMAIN r.data = {} THEN d
    ELSE LET k == CHOOSE k \in DOMAIN r.data : TRUE IN [n \in {k} |-> r.data[k]] @@ d

\* bind_import_data without the setattr loop
bind_import_data_nothing(d, r) == d

\* "for key, value in import_data.items(): setattr(self, key, value)",
\* reached only when do_import returned
bind_import_data(d, r) == IF r.exc # "none" THEN d ELSE r.data @@ d

\* the names bound by the same specification instance as name
SameImporter(tbl, name) == {k \in DOMAIN tbl : tbl[k] = tbl[name]}

\* an exception object, told apart by the code that raised it; subject is
\* what its message names as the owner of the missing attribute
ErrorFrom(raiser, subject) == [kind |-> "exception", path |-> << raiser >>, name |-> subject]

\* the class name in the message of LazyImporter.__getattr__
ClassName == "LazyImporter"

\* the __getattr__ handler fs as a call enters it: by tells a call of the
\* function ("module_getattr") from the interpreter's call for an attribute
\* the module lacks ("module_read")
Handler(fs, by) ==
    [made |-> fs.made, module_name |-> fs.module_name, dir_data |-> fs.dir_data, by |-> by]

\* a read of the container that no handler of get_module_funcs made
Direct == Handler(NoFuncs, "getattr")

\* the outcome of a call of the __getattr__ handler h
HandlerCall(h, out) == [out EXCEPT !.op = h.by]

\* handled that lets the container's exception pass
handled_never(h, out) == IF h.made THEN HandlerCall(h, out) ELSE out

\* the outcome of "getattr(importer, name)" as it leaves the __getattr__
\* handler h (a direct read has none): with a module name, "except
\* AttributeError" raises a new AttributeError that names the module
handled(h, out) ==
    IF ~h.made THEN out
    ELSE IF h.module_name # None /\ out.exc = "AttributeError"
      THEN HandlerCall(h, [out EXCEPT !.value = ErrorFrom("__getattr__", h.module_name)])
    ELSE HandlerCall(h, out)

\* the read found no instance attribute and no table, or no entry for name
GetAttrRaise(h, name, exc, err) ==
    /\ last' = handled(h, NoCall("getattr", name, exc, err))
    /\ UNCHANGED << imports, globals_, dict, sys_modules, attached, ncalls >>

\* the instance attributes __init__ and __get__ set.  They live in the
\* __dict__ the setattr loop writes to: imports, globals_ and importers
\* hold what __init__ and __get__ stored, and an entry of dict under one of
\* these names is the value a setattr loop put in its place
FieldNames == {"_imports", "_globals", "_importers"}

\* the attributes of __init__ and __get__ that a setattr loop has replaced
replaced_fields(d) == DOMAIN d \cap FieldNames

\* __getattr__ after do_import (r is what it returned or raised)
GetAttrImported(h, name, tbl, importer, r, exc) ==
    /\ importers' = IsSet(tbl)
    /\ dict' = bind_import_data(dict, r)
    /\ sys_modules' = r.sys
    /\ attached' = r.att
    /\ ncalls' = [n \in Names |->
         IF n \in DOMAIN tbl /\ tbl[n] = importer THEN ncalls[n] + 1 ELSE ncalls[n]]
    /\ last' = handled(h, Outcome("getattr", name, exc,
         IF exc = "none" THEN r.data[name]
         ELSE IF r.exc # "none" THEN ErrorFrom("do_import", None)
         ELSE ErrorFrom("LazyImporter.__getattr__", None),
         TRUE, r.log, r.sys \ sys_modules,
         DOMAIN bind_import_data(dict, r) \ DOMAIN dict))
    /\ UNCHANGED << imports, globals_ >>

\* "obj = import_data[name]" is a KeyError when do_import did not return name
GetAttrResolve(h, name, tbl, importer, r) ==
    GetAttrImported(h, name, tbl, importer, r,
        IF r.exc # "none" THEN r.exc
        ELSE IF name \notin DOMAIN r.data THEN "KeyError"
        ELSE "none")

\* __getattr__ once the importer of the name is known
GetAttrLookup(h, name, tbl, importer) ==
    /\ ncalls[name] < MaxCalls
    /\ \E order \in Orders(importer.submodules) :
         GetAttrResolve(h, name, tbl, importer, do_import(importer, globals_, world, order))

\* __getattr__ after "self._importers" (g is the table, or the grouper's error)
GetAttrMiss(h, name, g) ==
    IF g.exc # "none"
      THEN /\ GetAttrRaise(h, name, g.exc, ErrorFrom("group_importers", None))
           /\ UNCHANGED importers
    ELSE IF name \notin DOMAIN g.importers
      THEN /\ GetAttrRaise(h, name, MissingNameError,
                           ErrorFrom("LazyImporter.__getattr__", ClassName))
           /\ importers' = IsSet(g.importers)
    ELSE GetAttrLookup(h, name, g.importers, lookup_importer(g.importers, name))

\* LazyImporter.__getattr__ behind the attribute read "container.<name>"
LazyImporter_getattr(h, name) ==
    /\ Constructed
    /\ IF name \in DOMAIN dict
         THEN \* ordinary attribute lookup finds the instance attribute
              /\ last' = handled(h, NoCall("getattr", name, "none", dict[name]))
              /\ UNCHANGED << imports, globals_, importers, dict, sys_modules, attached, ncalls >>
         ELSE GetAttrMiss(h, name, get_importers)

\* the read "container.<name>" by code that holds the container
GetAttr(name) == LazyImporter_getattr(Direct, name) /\ UNCHANGED module_vars

(***************************************************************************)
(* Other code of the process, running between two reads.                   *)
(***************************************************************************)
\* the state of the import system after an import by other code
ExternalImported(r) ==
    /\ r.sys # sys_modules
    /\ sys_modules' = r.sys
    /\ attached' = r.att

\* "import <p>" executed by other code
ExternalImport(p) ==
    /\ Constructed
    /\ p \notin sys_modules
    /\ ExternalImported(gcd_import(world, split(p), 1))
    /\ last' = NoCall("extern", None, "none", NoObj)
    /\ UNCHANGED << imports, globals_, importers, dict, ncalls >>
    /\ UNCHANGED module_vars

\* __get__ stores the table the grouper returned; an error stores nothing
ImportersRead(g) ==
    /\ importers' = IF g.exc = "none" THEN IsSet(g.importers) ELSE importers
    /\ last' = NoCall("_importers", None, g.exc, NoObj)

\* the read "container._importers" (_ImporterGrouper.__get__)
AccessImporters ==
    /\ Constructed
    /\ ImportersRead(get_importers)
    /\ UNCHANGED << imports, globals_, dict, sys_modules, attached, ncalls >>
    /\ UNCHANGED module_vars

Next ==
    \/ \E name \in Names : GetAttr(name)
    \/ AccessImporters
    \/ \E p \in OnDisk : ExternalImport(p)

\* the container's own operations, with no other code running in between
NextContainer ==
    \/ \E name \in Names : GetAttr(name)
    \/ AccessImporters

(***************************************************************************)
(* Specifications given to the container.                                  *)
(***************************************************************************)
rel_submod == << Dot, "ex_submod" >>

\* module imports, from-imports and multi-from-imports
CoreImports ==
    { ModuleImport(ex_mod, None),
      ModuleImport(ex_submod, None),
      ModuleImport(ex_other, None),
      ModuleImport(ex_fakemod, None),
      ModuleImport(ex_submod, "a"),
      FromImport(ex_mod, "name", None),
      FromImport(rel_submod, "name2", "b"),
      MultiFromImport(ex_submod, << Str("name"), Pair("name2", "a") >>),
      MultiFromImport(ex_mod, << Pair("name", "a"), Pair("missing", "b") >>) }

\* try/except imports
TryImports ==
    { TryExceptImport(fakemod, tomli, "a"),
      TryExceptImport(ex_submod, fakemod, "b"),
      TryExceptImport(badmod, tomli, "a"),
      TryExceptImport(fakemod, ex_fakemod, "b"),
      TryExceptFromImport(fakemod, "name", tomli, "name", "a"),
      TryExceptFromImport(ex_submod, "name2", tomli, "name", "b"),
      TryExceptFromImport(badmod, "name", tomli, "name", "name"),
      TryExceptFromImport(ex_mod, "missing", tomli, "name", "name2") }

\* every class, with bound names that meet
GroupImports ==
    { ModuleImport(ex_mod, None),
      ModuleImport(ex_submod, None),
      ModuleImport(ex_other, None),
      ModuleImport(tomli, None),
      ModuleImport(ex_submod, "a"),
      ModuleImport(tomli, "ex_mod"),
      FromImport(ex_mod, "name", None),
      FromImport(ex_submod, "name", "a"),
      FromImport(tomli, "name", "ex_mod"),
      FromImport(rel_submod, "name2", "b"),
      MultiFromImport(ex_submod, << Str("name"), Pair("name2", "a") >>),
      MultiFromImport(ex_mod, << Pair("name", "b"), Pair("ex_submod", "b") >>),
      MultiFromImport(tomli, << Pair("name", "ex_mod") >>),
      TryExceptImport(fakemod, tomli, "a"),
      TryExceptImport(ex_mod, tomli, "ex_mod"),
      TryExceptFromImport(fakemod, "name", tomli, "name", "a") }

Init == InitWith(CoreImports) /\ PlainModule

Spec == Init /\ [][Next]_vars

InitTry == InitWith(TryImports) /\ PlainModule

SpecTry == InitTry /\ [][Next]_vars

InitGroup == InitWith(GroupImports) /\ PlainModule

SpecGroup == InitGroup /\ [][NextContainer]_vars

\* relative specifications of every class, absolute ones, and one whose
\* fallback only is relative
RelativeImports ==
    { ModuleImport(rel_submod, "a"),
      FromImport(rel_submod, "name2", "b"),
      MultiFromImport(rel_submod, << Str("name"), Pair("name2", "a") >>),
      TryExceptImport(rel_submod, tomli, "a"),
      TryExceptFromImport(rel_submod, "name", tomli, "name", "b"),
      TryExceptImport(tomli, rel_submod, "name2"),
      ModuleImport(tomli, None),
      FromImport(ex_mod, "name", None) }

InitRelative == InitWith(RelativeImports) /\ PlainModule

SpecRelative == InitRelative /\ [][NextContainer]_vars

\* "del <parent>.<child>" executed by other code: the submodule stays in
\* sys.modules and is no longer an attribute of its parent
ExternalDelAttr(p) ==
    /\ Constructed
    /\ p \in attached
    /\ attached' = attached \ {p}
    /\ last' = NoCall("delattr", None, "none", NoObj)
    /\ UNCHANGED << imports, globals_, importers, dict, sys_modules, ncalls >>
    /\ UNCHANGED module_vars

\* reads, with other code importing modules and unbinding submodules
NextWalk ==
    \/ \E name \in Names : GetAttr(name)
    \/ \E p \in OnDisk : ExternalImport(p)
    \/ \E p \in OnDisk : ExternalDelAttr(p)

\* module imports with a bound name and a path of two segments, next to
\* specifications that walk nothing
WalkImports ==
    { ModuleImport(ex_submod, "a"),
      ModuleImport(ex_other, "b"),
      ModuleImport(ex_submod, None),
      FromImport(ex_mod, "name", None) }

InitWalk == InitWith(WalkImports) /\ PlainModule

SpecWalk == InitWalk /\ [][NextWalk]_vars

(***************************************************************************)
(* Reads of containers whose specifications bind, next to other names, the *)
(* names of the container's own instance attributes.  Reads that follow    *)
(* the overwriting of such an attribute are left out.                      *)
(***************************************************************************)
\* no setattr loop has replaced an attribute of __init__ or __get__
FieldsKept == replaced_fields(dict) = {}

NextFields ==
    \/ \E name \in Names : FieldsKept /\ GetAttr(name)
    \/ \E p \in OnDisk : FieldsKept /\ ExternalImport(p)

FieldImports ==
    { MultiFromImport(ex_submod, << Str("name"), Pair("name2", "_imports") >>),
      MultiFromImport(ex_submod, << Pair("name", "a"), Pair("name2", "_globals") >>),
      MultiFromImport(ex_submod, << Pair("name", "b"), Pair("name2", "_importers") >>),
      MultiFromImport(ex_submod, << Str("name"), Pair("name2", "a") >>),
      FromImport(ex_submod, "name", "_imports"),
      ModuleImport(tomli, None) }

InitFields == InitWith(FieldImports) /\ PlainModule

SpecFields == InitFields /\ [][NextFields]_vars

(***************************************************************************)
(* Reads of one container by two threads.  A step is what a thread does    *)
(* between two points where the interpreter may switch threads: the lookup *)
(* among the instance attributes, the read of self._importers, the         *)
(* grouper, the setattr of __get__, the lookup in the table, do_import,    *)
(* each setattr of the loop, and the return.                               *)
(***************************************************************************)
\* the read of thread t ended: it returned value, or raised exc
ReadDone(k, exc, value) == [k EXCEPT !.at = "done", !.exc = exc, !.value = value]

\* what the other variables of a thread's step are
ThreadStep(t, k) ==
    /\ threads' = [threads EXCEPT ![t] = k]
    /\ UNCHANGED << imports, globals_, last, builtins_import, cap, namespace, block, funcs >>

\* "container.<name>" in thread t: the instance attribute if there is one,
\* else LazyImporter.__getattr__ is entered
ThreadRead(t, name) ==
    /\ Constructed
    /\ threads[t].at \in {"idle", "done"}
    /\ ThreadStep(t, IF name \in DOMAIN dict
                       THEN ReadDone([NoRead EXCEPT !.name = name], "none", dict[name])
                       ELSE [NoRead EXCEPT !.name = name, !.at = "getattr"])
    /\ UNCHANGED << importers, dict, sys_modules, attached, ncalls >>

\* "self._importers" in thread t: the instance attribute if there is one,
\* else _ImporterGrouper.__get__ is entered
ThreadImporters(t) ==
    /\ threads[t].at = "getattr"
    /\ ThreadStep(t, IF importers.set
                       THEN [threads[t] EXCEPT !.at = "lookup", !.importers = importers.table]
                       ELSE [threads[t] EXCEPT !.at = "group"])
    /\ UNCHANGED << importers, dict, sys_modules, attached, ncalls >>

\* "importers = self.group_importers(inst)" has ended (g)
ThreadGrouped(t, g) ==
    /\ ThreadStep(t, IF g.exc # "none"
                       THEN ReadDone(threads[t], g.exc, ErrorFrom("group_importers", None))
                       ELSE [threads[t] EXCEPT !.at = "store", !.importers = g.importers,
                                               !.grouped = TRUE])
    /\ UNCHANGED << importers, dict, sys_modules, attached, ncalls >>

ThreadGroup(t) ==
    /\ threads[t].at = "group"
    /\ ThreadGrouped(t, group_importers(imports, globals_))

\* "setattr(inst, self._name, importers)" in thread t
ThreadStore(t) ==
    /\ threads[t].at = "store"
    /\ importers' = IsSet(threads[t].importers)
    /\ ThreadStep(t, [threads[t] EXCEPT !.at = "lookup"])
    /\ UNCHANGED << dict, sys_modules, attached, ncalls >>

\* "importer = self._importers[name]" in thread t, on the table it got
ThreadLookup(t) ==
    /\ threads[t].at = "lookup"
    /\ ThreadStep(t, IF threads[t].name \notin DOMAIN threads[t].importers
                       THEN ReadDone(threads[t], MissingNameError,
                                     ErrorFrom("LazyImporter.__getattr__", ClassName))
                       ELSE [threads[t] EXCEPT !.at = "import"])
    /\ UNCHANGED << importers, dict, sys_modules, attached, ncalls >>

\* "import_data = importer.do_import(globs=self._globals)" has ended (r)
ThreadImported(t, importer, r) ==
    /\ sys_modules' = r.sys
    /\ attached' = r.att
    /\ ncalls' = [n \in Names |->
         IF n \in DOMAIN threads[t].importers /\ threads[t].importers[n] = importer
           THEN ncalls[n] + 1 ELSE ncalls[n]]
    /\ ThreadStep(t, IF r.exc # "none"
                       THEN ReadDone(threads[t], r.exc, ErrorFrom("do_import", None))
                       ELSE [threads[t] EXCEPT !.at = "bind", !.import_data = r.data,
                                               !.keys = DOMAIN r.data])
    /\ UNCHANGED << importers, dict >>

ThreadImport(t) ==
    /\ threads[t].at = "import"
    /\ ncalls[threads[t].name] < MaxCalls
    /\ \E order \in Orders(lookup_importer(threads[t].importers, threads[t].name).submodules) :
         ThreadImported(t, lookup_importer(threads[t].importers, threads[t].name),
                        do_import(lookup_importer(threads[t].importers, threads[t].name),
                                  globals_, world, order))

\* setattr_ that binds nothing
setattr_dropped(d, key, value) == d

\* "setattr(self, key, value)"
setattr_(d, key, value) == [n \in {key} |-> value] @@ d

\* one round of "for key, value in import_data.items(): setattr(self, key,
\* value)" in thread t
ThreadBind(t) ==
    /\ threads[t].at = "bind"
    /\ \E key \in threads[t].keys :
         /\ dict' = setattr_(dict, key, threads[t].import_data[key])
         /\ ThreadStep(t, [threads[t] EXCEPT !.keys = @ \ {key}])
    /\ UNCHANGED << importers, sys_modules, attached, ncalls >>

\* "obj = import_data[name]; return obj" in thread t
ThreadReturn(t) ==
    /\ threads[t].at = "bind"
    /\ threads[t].keys = {}
    /\ ThreadStep(t, IF threads[t].name \notin DOMAIN threads[t].import_data
                       THEN ReadDone(threads[t], "KeyError",
                                     ErrorFrom("LazyImporter.__getattr__", None))
                       ELSE ReadDone(threads[t], "none",
                                     threads[t].import_data[threads[t].name]))
    /\ UNCHANGED << importers, dict, sys_modules, attached, ncalls >>

\* the names the threads read
ThreadNames == {"ex_mod", "name", "a", "b"}

\* specifications that bind one name and two, one whose do_import raises
\* and one that takes a name of another
ThreadImports ==
    { ModuleImport(ex_submod, None),
      MultiFromImport(ex_submod, << Str("name"), Pair("name2", "a") >>),
      FromImport(tomli, "missing_attribute", "b"),
      FromImport(tomli, "name", "a") }

InitThreads == InitWith(ThreadImports) /\ PlainModule

NextThreads ==
    \/ \E t \in Threads, name \in ThreadNames : ThreadRead(t, name)
    \/ \E t \in Threads : ThreadImporters(t)
    \/ \E t \in Threads : ThreadGroup(t)
    \/ \E t \in Threads : ThreadStore(t)
    \/ \E t \in Threads : ThreadLookup(t)
    \/ \E t \in Threads : ThreadImport(t)
    \/ \E t \in Threads : ThreadBind(t)
    \/ \E t \in Threads : ThreadReturn(t)

SpecThreads == InitThreads /\ [][NextThreads]_vars

(***************************************************************************)
(* The module that declares the specifications: the constructors, __eq__   *)
(* and the properties of ImportBase, applied to the specifications written *)
(* so far (imports is the list being written).                             *)
(***************************************************************************)
\* the arguments of a constructor call, in the fields they are stored in
Call(cls, module_name, asname) == Imp(cls, module_name, asname)

\* TryExceptFromImport.__init__: "super().__init__(module_name,
\* except_module, asname)" raises ValueError unless this holds
TryExceptFromImport_valid(module_name, attribute_name, except_module, except_attribute, asname) ==
    TryExceptImport_valid(module_name, except_module, asname)

\* the constructor returned the specification, or raised ValueError
Constructed_(valid, imp) ==
    IF valid THEN [exc |-> "none", imp |-> imp] ELSE [exc |-> "ValueError", imp |-> imp]

\* <cls>(...) with the arguments of call c
new(c) ==
    CASE c.cls = "ModuleImport" ->
           Constructed_(ModuleImport_valid(c.module_name, c.asname),
                        ModuleImport(c.module_name, c.asname))
      [] c.cls = "FromImport" ->
           Constructed_(FromImport_valid(c.module_name, c.attrib_name, c.asname),
                        FromImport(c.module_name, c.attrib_name, c.asname))
      [] c.cls = "MultiFromImport" ->
           Constructed_(MultiFromImport_valid(c.module_name, c.attrib_names),
                        MultiFromImport(c.module_name, c.attrib_names))
      [] c.cls = "TryExceptImport" ->
           Constructed_(TryExceptImport_valid(c.module_name, c.except_module, c.asname),
                        TryExceptImport(c.module_name, c.except_module, c.asname))
      [] c.cls = "TryExceptFromImport" ->
           Constructed_(TryExceptFromImport_valid(c.module_name, c.attribute_name,
                                                  c.except_module, c.except_attribute, c.asname),
                        TryExceptFromImport(c.module_name, c.attribute_name,
                                            c.except_module, c.except_attribute, c.asname))

\* the statement ended (r): a specification that was constructed is
\* appended to the list
Declared(c, r) ==
    /\ imports' = IF r.exc = "none" THEN Append(imports, r.imp) ELSE imports
    /\ last' = NoCall("new", c.cls, r.exc, c)

\* a statement that constructs a specification for the list
Declare(c) ==
    /\ Len(imports) < MaxImports
    /\ Declared(c, new(c))
    /\ UNCHANGED << globals_, importers, dict, sys_modules, attached, ncalls >>
    /\ UNCHANGED module_vars

\* __eq__ of each class, for two instances of that class
ModuleImport_eq(a, b) == << a.module_name, a.asname >> = << b.module_name, b.asname >>

FromImport_eq(a, b) ==
    << a.module_name, a.attrib_name, a.asname >> = << b.module_name, a.attrib_name, b.asname >>

MultiFromImport_eq(a, b) ==
    << a.module_name, a.attrib_names >> = << b.module_name, b.attrib_names >>

TryExceptImport_eq(a, b) ==
    << a.module_name, a.except_module, a.asname >>
      = << b.module_name, b.except_module, b.asname >>

TryExceptFromImport_eq(a, b) ==
    << a.module_name, a.attribute_name, a.except_module, a.except_attribute, a.asname >>
      = << b.module_name, b.attribute_name, b.except_module, b.except_attribute, b.asname >>

\* "a == b": __eq__ of a's class; for another class both __eq__ return
\* NotImplemented and the interpreter compares the identities
eq(a, b, same_object) ==
    IF a.cls # b.cls THEN same_object
    ELSE CASE a.cls = "ModuleImport" -> ModuleImport_eq(a, b)
           [] a.cls = "FromImport" -> FromImport_eq(a, b)
           [] a.cls = "MultiFromImport" -> MultiFromImport_eq(a, b)
           [] a.cls = "TryExceptImport" -> TryExceptImport_eq(a, b)
           [] a.cls = "TryExceptFromImport" -> TryExceptFromImport_eq(a, b)

\* a bool, as the value of comparing the specifications i and j
BoolObj(i, j, b) == [kind |-> "bool", path |-> << i, j >>, name |-> IF b THEN "True" ELSE "False"]

\* "imports[i] == imports[j]"
Compare(i, j) ==
    /\ i \in 1..Len(imports) /\ j \in 1..Len(imports)
    /\ last' = NoCall("eq", None, "none", BoolObj(i, j, eq(imports[i], imports[j], i = j)))
    /\ UNCHANGED container_vars
    /\ UNCHANGED module_vars

\* the properties of ImportBase read on specification i
PropsObj(i, imp) ==
    [kind |-> "props", path |-> module_name_noprefix(imp), name |-> module_basename(imp),
     index |-> i, import_level |-> import_level(imp), submodule_names |-> submodule_names(imp)]

\* "imp.import_level, imp.module_name_noprefix, imp.module_basename,
\* imp.submodule_names" for imp = imports[i]
ReadProperties(i) ==
    /\ i \in 1..Len(imports)
    /\ last' = NoCall("props", None, "none", PropsObj(i, imports[i]))
    /\ UNCHANGED container_vars
    /\ UNCHANGED module_vars

\* a string that is no identifier
NotIdentifier == "##invalid_identifier##"

up_tomli == << Dot, Dot >> \o tomli

\* the constructor calls of the module
Calls ==
    { Call("ModuleImport", tomli, None),
      Call("ModuleImport", up_tomli, None),
      Call("ModuleImport", up_tomli, "a"),
      Call("ModuleImport", ex_submod, "a"),
      Call("ModuleImport", ex_submod, NotIdentifier),
      [Call("FromImport", ex_mod, None) EXCEPT !.attrib_name = "name"],
      [Call("FromImport", ex_mod, "a") EXCEPT !.attrib_name = "name"],
      [Call("FromImport", ex_mod, "a") EXCEPT !.attrib_name = "name2"],
      [Call("FromImport", rel_submod, None) EXCEPT !.attrib_name = "name"],
      [Call("FromImport", rel_submod, None) EXCEPT !.attrib_name = NotIdentifier],
      [Call("FromImport", ex_mod, "") EXCEPT !.attrib_name = "name"],
      [Call("MultiFromImport", ex_mod, None) EXCEPT !.attrib_names = << Str("name") >>],
      [Call("MultiFromImport", ex_mod, None) EXCEPT !.attrib_names = << Pair("name", "a") >>],
      [Call("MultiFromImport", rel_submod, None)
         EXCEPT !.attrib_names = << Str("name"), Pair("name2", NotIdentifier) >>],
      [Call("TryExceptImport", tomli, "a") EXCEPT !.except_module = ex_mod],
      [Call("TryExceptImport", tomli, "a") EXCEPT !.except_module = ex_submod],
      [Call("TryExceptImport", rel_submod, NotIdentifier) EXCEPT !.except_module = tomli],
      [Call("TryExceptFromImport", tomli, "a")
         EXCEPT !.except_module = ex_mod, !.attribute_name = "name", !.except_attribute = "name"],
      [Call("TryExceptFromImport", tomli, "a")
         EXCEPT !.except_module = ex_mod, !.attribute_name = "name", !.except_attribute = "name2"],
      [Call("TryExceptFromImport", rel_submod, "")
         EXCEPT !.except_module = ex_mod, !.attribute_name = "name", !.except_attribute = "name"] }

\* a module that has declared nothing yet
InitDeclare ==
    /\ imports = << >>
    /\ globals_ = NoGlobals
    /\ importers = Unset
    /\ dict = EmptyDict
    /\ sys_modules = {}
    /\ attached = {}
    /\ ncalls = [n \in Names |-> 0]
    /\ last = NoCall("start", None, "none", NoObj)
    /\ PlainModule

NextDeclare ==
    \/ \E c \in Calls : Declare(c)
    \/ \E i, j \in 1..MaxImports : Compare(i, j)
    \/ \E i \in 1..MaxImports : ReadProperties(i)

SpecDeclare == InitDeclare /\ [][NextDeclare]_vars

(***************************************************************************)
(* capture.py: capture_imports, the recording __import__ and the           *)
(* placeholders it returns.                                                *)
(***************************************************************************)
\* import statements run in the capture blocks of one module
MaxStmts == 2

\* the globals() of the module whose body declares the container and runs
\* the capture blocks (a module of package ex_mod)
ModuleGlobals == GlobalsOf(ex_mod)

\* the locals of a function of that module
FunctionLocals == [given |-> TRUE, package |-> << "<locals>" >>]

\* the globals() of some other module
OtherGlobals == GlobalsOf(tomli)

\* sys._getframe(1) of a caller of __enter__
Frame(f_globals, f_locals) == [f_globals |-> f_globals, f_locals |-> f_locals]

\* the callers of __enter__: module level, a function of the module, and
\* the module level of another module
Frames ==
    {Frame(ModuleGlobals, ModuleGlobals), Frame(ModuleGlobals, FunctionLocals),
     Frame(OtherGlobals, OtherGlobals)}

\* a value of the namespace that is no placeholder
PlainValue == [kind |-> "value", capturer |-> None, id |-> 0, attrib_name |-> ""]

\* _ImportPlaceholder: id names the placeholder that __import__ returned,
\* the one a chain of placeholder_parent leads back to
Placeholder(c, id, attrib_name) ==
    [kind |-> "placeholder", capturer |-> c, id |-> id, attrib_name |-> attrib_name]

\* _ImportPlaceholder.__getattr__
Placeholder_getattr(ph, item) == [ph EXCEPT !.attrib_name = item]

\* "ph.a.b": one __getattr__ per name
RECURSIVE Placeholder_chain(_, _)
Placeholder_chain(ph, items) ==
    IF items = << >> THEN ph
    ELSE Placeholder_chain(Placeholder_getattr(ph, Head(items)), Tail(items))

\* globs[k] = v
setitem(ns, k, v) ==
    [keys |-> IF k \in DOMAIN ns.val THEN ns.keys ELSE Append(ns.keys, k),
     val |-> [n \in {k} |-> v] @@ ns.val]

\* delitem that leaves the binding in place
delitem_kept(ns, k) == ns

\* del globs[k]
delitem(ns, k) ==
    [keys |-> SelectSeq(ns.keys, LAMBDA x : x # k),
     val |-> [n \in DOMAIN ns.val \ {k} |-> ns.val[n]]]

\* "globs.get(k)" is true
truthy(ns, k) == k \in DOMAIN ns.val /\ ns.val[k].kind # "None"

\* a function, or any other value that is true
SomeFunction == [kind |-> "function", capturer |-> None, id |-> 0, attrib_name |-> ""]

CapturedModuleImport(module_name, placeholder) ==
    [kind |-> "module", module_name |-> module_name, attrib_name |-> None,
     placeholder |-> placeholder]

CapturedFromImport(module_name, attrib_name, placeholder) ==
    [kind |-> "from", module_name |-> module_name, attrib_name |-> attrib_name,
     placeholder |-> placeholder]

\* CapturedModuleImport.final_element
final_element(capture) == split(capture.module_name)[Len(split(capture.module_name))]

\* "." * level
leading_dots(level) == [i \in 1..level |-> Dot]

\* what _capturing_import appends for one call
captured_by_call(module_name, fromlist, placeholder) ==
    IF fromlist # << >>
      THEN [i \in 1..Len(fromlist) |->
              CapturedFromImport(module_name, fromlist[i], placeholder)]
      ELSE << CapturedModuleImport(module_name, placeholder) >>

\* _capturing_import(name, globals, locals, fromlist, level) called from the
\* module's own code: the instance after the call; the placeholder returned
\* is the one numbered calls
capturing_import(k, name, fromlist, level) ==
    [k EXCEPT !.calls = @ + 1,
              !.captured_imports =
                  @ \o captured_by_call(leading_dots(level) \o name, fromlist, k.calls + 1)]

\* the placeholder the call numbered id returned
returned_placeholder(c, id, name) == Placeholder(c, id, split(name)[1])

\* the caller's frame, as the outcome of __enter__ reports it
FrameObj(frame) ==
    [kind |-> "frame", path |-> frame.f_globals.package,
     name |-> IF frame.f_globals = frame.f_locals THEN "module" ELSE "function"]

\* enter_check without the test for an instance already entered
enter_check_reusable(k, frame, importer_globals, ns) ==
    IF frame.f_globals # frame.f_locals THEN "CaptureError"
    ELSE IF frame.f_globals # importer_globals THEN "CaptureError"
    ELSE IF k.auto_export /\ (truthy(ns, "__getattr__") \/ truthy(ns, "__dir__"))
      THEN "CaptureError"
    ELSE "none"

\* enter_check that tests the caller's globals only
enter_check_globals_only(k, frame, importer_globals, ns) ==
    IF k.previous_import_func # None \/ k.import_func # None THEN "CaptureError"
    ELSE IF frame.f_globals # importer_globals THEN "CaptureError"
    ELSE "none"

\* the checks of __enter__, in their order: what it raises
enter_check(k, frame, importer_globals, ns) ==
    IF k.previous_import_func # None \/ k.import_func # None THEN "CaptureError"
    ELSE IF frame.f_globals # frame.f_locals THEN "CaptureError"
    ELSE IF frame.f_globals # importer_globals THEN "CaptureError"
    ELSE IF k.auto_export /\ (truthy(ns, "__getattr__") \/ truthy(ns, "__dir__"))
      THEN "CaptureError"
    ELSE "none"

\* __enter__ after its checks
Entered(c, frame, exc) ==
    /\ IF exc # "none"
         THEN UNCHANGED << cap, builtins_import >>
         ELSE /\ cap' = [cap EXCEPT ![c].globs = frame.f_globals,
                                    ![c].previous_import_func = builtins_import,
                                    ![c].import_func = c,
                                    ![c].at = "block"]
              /\ builtins_import' = c
    /\ last' = NoCall("enter", c, exc, FrameObj(frame))
    /\ UNCHANGED << container_vars, namespace, block, funcs, threads >>

\* capture_imports.__enter__ of instance c, called from frame
Enter(c, frame) ==
    /\ cap[c].at \in {"pending", "block", "done"}
    /\ Entered(c, frame, enter_check(cap[c], frame, globals_, namespace))

\* a block of the module is open
InBlock == \E c \in Capturers : cap[c].at = "block"

\* the names an import statement binds, each with the value stored
RECURSIVE BindAll(_, _)
BindAll(ns, bindings) ==
    IF bindings = << >> THEN ns
    ELSE BindAll(setitem(ns, Head(bindings).key, Head(bindings).value), Tail(bindings))

\* the record of a name bound by an import statement
Binding(module_name, attrib, key) == [module_name |-> module_name, attrib |-> attrib, key |-> key]

\* the statement called the recording function of d, which returned
\* placeholder ph; the statement then stores its names
Recorded(d, k, bindings, bound) ==
    /\ cap' = [cap EXCEPT ![d] = k]
    /\ namespace' = BindAll(namespace, bindings)
    /\ block' = block \o bound
    /\ last' = NoCall("import", d, "none", NoObj)
    /\ UNCHANGED << container_vars, builtins_import, funcs, threads >>

\* the value "import a.b as n" stores: the attribute chain from the placeholder
\* returned for a.b; "import a.b" stores the placeholder itself
import_value(ph, module_name, asname) ==
    IF asname = None THEN ph ELSE Placeholder_chain(ph, Rest(split(module_name)))

\* "import <module_name>" or "import <module_name> as <asname>" at module
\* level while a recording function is installed
ImportStmt(module_name, asname) ==
    /\ InBlock
    /\ builtins_import \in Capturers
    /\ cap[builtins_import].globs = ModuleGlobals
    /\ Len(block) < MaxStmts
    /\ Recorded(builtins_import,
                capturing_import(cap[builtins_import], module_name, << >>, 0),
                << [key |-> IF asname = None THEN split(module_name)[1] ELSE asname,
                    value |-> import_value(
                        returned_placeholder(builtins_import,
                                             cap[builtins_import].calls + 1, module_name),
                        module_name, asname)] >>,
                << Binding(module_name, None,
                         IF asname = None THEN split(module_name)[1] ELSE asname) >>)

\* "from <dots><name> import a as x, b as y" at module level while a
\* recording function is installed; pairs lists (attribute, bound name)
FromStmt(level, name, pairs) ==
    /\ InBlock
    /\ builtins_import \in Capturers
    /\ cap[builtins_import].globs = ModuleGlobals
    /\ Len(block) + Len(pairs) <= MaxStmts
    /\ Recorded(builtins_import,
                capturing_import(cap[builtins_import], name,
                                 [i \in 1..Len(pairs) |-> pairs[i].attr], level),
                [i \in 1..Len(pairs) |->
                   [key |-> pairs[i].asname,
                    value |-> Placeholder_getattr(
                        returned_placeholder(builtins_import,
                                             cap[builtins_import].calls + 1, name),
                        pairs[i].attr)]],
                [i \in 1..Len(pairs) |->
                   Binding(leading_dots(level) \o name, pairs[i].attr, pairs[i].asname)])

\* other code assigns builtins.__import__
ReplaceImport ==
    /\ builtins_import # OtherImport
    /\ builtins_import' = OtherImport
    /\ last' = NoCall("replace", None, "none", NoObj)
    /\ UNCHANGED << container_vars, cap, namespace, block, funcs, threads >>

\* "placeholders[ph]": attribute name -> captured import, of the imports
\* recorded with placeholder id; a later import replaces an earlier one
RECURSIVE importer_map(_, _)
importer_map(captured, id) ==
    IF captured = << >> THEN [n \in {} |-> CapturedModuleImport(<< >>, 0)]
    ELSE IF captured[Len(captured)].placeholder # id
      THEN importer_map(SubSeq(captured, 1, Len(captured) - 1), id)
    ELSE [n \in {IF captured[Len(captured)].kind = "module"
                   THEN final_element(captured[Len(captured)])
                   ELSE captured[Len(captured)].attrib_name}
            |-> captured[Len(captured)]]
         @@ importer_map(SubSeq(captured, 1, Len(captured) - 1), id)

\* add_pair that never merges: one list per name
add_pair_per_statement(from_imports, module_name, pair) ==
    Append(from_imports, [module_name |-> module_name, pairs |-> << pair >>])

\* "pairs.append((attrib_name, key))" in from_imports[module_name]
add_pair(from_imports, module_name, pair) ==
    IF \E i \in 1..Len(from_imports) : from_imports[i].module_name = module_name
      THEN [i \in 1..Len(from_imports) |->
              IF from_imports[i].module_name = module_name
                THEN [from_imports[i] EXCEPT !.pairs = Append(@, pair)]
                ELSE from_imports[i]]
      ELSE Append(from_imports, [module_name |-> module_name, pairs |-> << pair >>])

\* what the loop over the namespace gives: the error it raised (subject
\* lists the module the message names), or the imports made and the namespace left
Traced(exc, subject, final_imports, from_imports, ns) ==
    [exc |-> exc, subject |-> subject, final_imports |-> final_imports,
     from_imports |-> from_imports, ns |-> ns]

\* "except KeyError": the name is the first segment of a captured import's
\* module, or the KeyError is raised again
trace_missing(map, attrib_name, ns) ==
    IF \E n \in DOMAIN map : split(map[n].module_name)[1] = attrib_name
      THEN Traced("CaptureError",
                  << map[CHOOSE n \in DOMAIN map :
                           split(map[n].module_name)[1] = attrib_name].module_name >>,
                  << >>, << >>, ns)
      ELSE Traced("KeyError", << >>, << >>, << >>, ns)

\* "for key, value in self.globs.copy().items()"
RECURSIVE trace_names(_, _, _, _, _, _)
RECURSIVE trace_value(_, _, _, _, _, _, _)
RECURSIVE trace_capture(_, _, _, _, _, _, _, _)
trace_capture(keys, c, captured, ns, final_imports, from_imports, attrib_name, map) ==
    IF attrib_name \notin DOMAIN map THEN trace_missing(map, attrib_name, ns)
    ELSE IF map[attrib_name].kind = "module"
      THEN trace_names(Tail(keys), c, captured, delitem(ns, Head(keys)),
                       Append(final_imports,
                              ModuleImport(map[attrib_name].module_name, Head(keys))),
                       from_imports)
    ELSE trace_names(Tail(keys), c, captured, delitem(ns, Head(keys)), final_imports,
                     add_pair(from_imports, map[attrib_name].module_name,
                              Pair(attrib_name, Head(keys))))

trace_value(keys, c, captured, ns, final_imports, from_imports, value) ==
    IF value.kind = "placeholder" /\ value.capturer = c /\ value.attrib_name # ""
      THEN trace_capture(keys, c, captured, ns, final_imports, from_imports,
                         value.attrib_name, importer_map(captured, value.id))
      ELSE trace_names(Tail(keys), c, captured, ns, final_imports, from_imports)

trace_names(keys, c, captured, ns, final_imports, from_imports) ==
    IF keys = << >> THEN Traced("none", << >>, final_imports, from_imports, ns)
    ELSE trace_value(keys, c, captured, ns, final_imports, from_imports, ns.val[Head(keys)])

\* extend_imports(importer, imports): the specifications are appended to the
\* container's list
extend_imports(imports_, final_imports) == imports_ \o final_imports

\* multi_from_imports that drops the names imported from a module
multi_from_imports_none(from_imports) == << >>

\* "[MultiFromImport(k, v) for k, v in from_imports.items()]"
multi_from_imports(from_imports) ==
    [i \in 1..Len(from_imports) |->
       MultiFromImport(from_imports[i].module_name, from_imports[i].pairs)]

\* the exception a block ended with, as __exit__ receives it
ExcObj(err) == [kind |-> "exception", path |-> << >>, name |-> err]

\* ExitRaise that leaves the recording function installed
ExitRaise_installed(c, err, exc, subject, ns) ==
    /\ cap' = [cap EXCEPT ![c].at = "done"]
    /\ namespace' = ns
    /\ last' = Outcome("exit", c, exc, ExcObj(err), FALSE, subject, {}, {})
    /\ UNCHANGED << container_vars, builtins_import, block, funcs, threads >>

\* __exit__ raises CaptureError or KeyError: the import function is restored,
\* the container is as it was
ExitRaise(c, err, exc, subject, ns) ==
    /\ builtins_import' = cap[c].previous_import_func
    /\ cap' = [cap EXCEPT ![c].at = "done"]
    /\ namespace' = ns
    /\ last' = Outcome("exit", c, exc, ExcObj(err), FALSE, subject, {}, {})
    /\ UNCHANGED << container_vars, block, funcs, threads >>

\* the names of the model, in the order of Python's str comparison
NameOrder ==
    << "__dir__", "__getattr__", "__name__", "a", "b", "ex_mod", "ft", "functools",
       "importlib", "lru", "lru_cache", "missing_attribute", "name", "name2",
       "part", "partial", "tomli", "util" >>

Rank(n) == CHOOSE i \in 1..Len(NameOrder) : NameOrder[i] = n

RECURSIVE insort(_, _)
insort(q, n) ==
    IF q = << >> THEN << n >>
    ELSE IF Rank(n) < Rank(Head(q)) THEN << n >> \o q
    ELSE << Head(q) >> \o insort(Tail(q), n)

\* sorted(q)
RECURSIVE sorted(_)
sorted(q) == IF q = << >> THEN << >> ELSE insort(sorted(Tail(q)), Head(q))

\* the keys of a dict as a list
RECURSIVE listed(_)
listed(S) ==
    IF S = {} THEN << >>
    ELSE << CHOOSE n \in S : TRUE >> \o listed(S \ {CHOOSE n \in S : TRUE})

\* LazyImporter.__dir__ that leaves out the names already bound
LazyImporter_dir_unresolved(g) ==
    IF g.exc # "none" THEN [exc |-> g.exc, list |-> << >>]
    ELSE [exc |-> "none", list |-> sorted(listed(DOMAIN g.importers \ DOMAIN dict))]

\* LazyImporter.__dir__, where g is what "self._importers" gave
LazyImporter_dir(g) ==
    IF g.exc # "none" THEN [exc |-> g.exc, list |-> << >>]
    ELSE [exc |-> "none", list |-> sorted(listed(DOMAIN g.importers))]

\* the builtin dir(obj): the sorted list of what obj.__dir__() returned
builtin_dir(d) == [exc |-> d.exc, list |-> sorted(d.list)]

\* the dir_data of get_module_funcs(importer, module_name): d is what
\* dir(importer) gave, mod_keys the keys of the module's __dict__
module_dir_data(module_name, mod_keys, d) ==
    IF module_name # None THEN sorted(mod_keys \o d.list) ELSE d.list

\* get_module_funcs(importer, module_name): the two handlers, as the values
\* their closure holds
get_module_funcs(module_name, mod_keys, d) ==
    [made |-> TRUE, module_name |-> module_name,
     dir_data |-> module_dir_data(module_name, mod_keys, d)]

\* the __name__ of the module
ModuleName == "ex_mod"

\* __exit__ ends after the loop: the container holds imps; exc is what
\* __exit__ raised
ExitDone(c, err, exc, ns, imps, tbl, fs) ==
    /\ builtins_import' = cap[c].previous_import_func
    /\ cap' = [cap EXCEPT ![c].at = "done"]
    /\ namespace' = ns
    /\ imports' = imps
    /\ importers' = tbl
    /\ funcs' = fs
    /\ last' = Outcome("exit", c, exc, ExcObj(err), FALSE, << >>, {}, {})
    /\ UNCHANGED << globals_, dict, sys_modules, attached, ncalls, block, threads >>

\* "if self.auto_export:" after dir(importer) ran the grouper (g); the
\* module that runs the block is in sys.modules under its __name__
ExitExport(c, err, ns, imps, g) ==
    IF g.exc # "none" THEN ExitDone(c, err, g.exc, ns, imps, importers, funcs)
    ELSE ExitDone(c, err, "none",
                  setitem(setitem(ns, "__getattr__", SomeFunction), "__dir__", SomeFunction),
                  imps, IsSet(g.importers),
                  get_module_funcs(ModuleName, ns.keys,
                                   builtin_dir(LazyImporter_dir(g))))

\* __exit__ after extend_imports
ExitExtended(c, err, ns, imps) ==
    IF cap[c].auto_export
      THEN ExitExport(c, err, ns, imps,
                      IF importers.set
                        THEN [exc |-> "none", importers |-> importers.table]
                        ELSE group_importers(imps, globals_))
      ELSE ExitDone(c, err, "none", ns, imps, importers, funcs)

\* __exit__ after the loop over the namespace (t is what the loop gave)
ExitTraced(c, err, t) ==
    IF t.exc # "none" THEN ExitRaise(c, err, t.exc, t.subject, t.ns)
    ELSE ExitExtended(c, err, t.ns,
                      extend_imports(imports,
                                     t.final_imports \o multi_from_imports(t.from_imports)))

\* Exit that does not compare builtins.__import__ with its own function
Exit_unchecked(c, err) ==
    /\ cap[c].at = "block"
    /\ ExitTraced(c, err,
                  trace_names(namespace.keys, c, cap[c].captured_imports,
                              namespace, << >>, << >>))

\* capture_imports.__exit__ of instance c at the end of its block; err is the
\* exception the block ended with ("none": it ran to its end or returned)
Exit(c, err) ==
    /\ cap[c].at = "block"
    /\ IF builtins_import # cap[c].import_func
         THEN ExitRaise(c, err, "CaptureError", << >>, namespace)
         ELSE ExitTraced(c, err,
                         trace_names(namespace.keys, c, cap[c].captured_imports,
                                     namespace, << >>, << >>))

\* the modules named in the capture blocks
functools == << "functools" >>
importlib == << "importlib" >>
importlib_util == << "importlib", Dot, "util" >>

\* the "import" statements of the blocks: module and bound name
ImportStmts ==
    {<< functools, None >>, << functools, "ft" >>, << importlib_util, "util" >>,
     << importlib_util, None >>, << importlib, None >>}

\* the (attribute, bound name) pairs of the "from functools import" statements
FromPairs == {Pair("partial", "part"), Pair("lru_cache", "lru"), Pair("partial", "partial")}

\* the lists of one or two pairs a statement names
PairLists == {<< p >> : p \in FromPairs} \cup {<< p, q >> : p \in FromPairs, q \in FromPairs}

\* the namespace of the module before its capture blocks; defined lists the
\* handlers the module defines itself
ModuleNamespace(defined) ==
    BindAll(setitem(EmptyNamespace, "__name__", PlainValue),
            [i \in 1..Len(defined) |-> [key |-> defined[i], value |-> SomeFunction]])

\* the errors a block may end with
BlockErrors == {"none", "RuntimeError"}

\* a module that declares a container, then runs capture blocks on it
InitCapture ==
    \E imps \in {<< >>, << ModuleImport(functools, "ft") >>},
       globs \in {NoGlobals, ModuleGlobals},
       auto_export \in BOOLEAN,
       defined \in {<< >>, << "__getattr__" >>, << "__dir__" >>} :
      /\ Constructing(imps, globs, FALSE, group_importers(imps, globs))
      /\ builtins_import = RealImport
      /\ cap = [c \in Capturers |-> NewCapture(auto_export)]
      /\ namespace = ModuleNamespace(defined)
      /\ block = << >>
      /\ funcs = NoFuncs
      /\ threads = NoReads

\* the instance the module's with-statement uses
TheCapture == "A"

NextCapture ==
    \/ \E frame \in Frames : Enter(TheCapture, frame)
    \/ \E s \in ImportStmts : ImportStmt(s[1], s[2])
    \/ \E pairs \in PairLists : FromStmt(0, functools, pairs)
    \/ FromStmt(1, << >>, << Pair("name", "name") >>)
    \/ ReplaceImport
    \/ \E err \in BlockErrors : Exit(TheCapture, err)

SpecCapture == InitCapture /\ [][NextCapture]_vars

(***************************************************************************)
(* Import statements of other code while a recording function is           *)
(* installed: in a function of the module, or in another module.           *)
(***************************************************************************)
\* passes_through that compares the globals only
passes_through_globals(k, frame) == frame.f_globals # k.globs

\* "if globals is not self.globs or globals != locals"
passes_through(k, frame) ==
    frame.f_globals # k.globs \/ frame.f_globals # frame.f_locals

\* what a function other code installed returns
OtherResult == [kind |-> "value", path |-> << >>, name |-> OtherImport]

\* the object of a placeholder, as the outcome of a call reports it
PlaceholderObj(c, id) == [kind |-> "placeholder", path |-> << >>, name |-> c]

\* the call f(name, globals, locals, fromlist, 0) from frame, f being what
\* builtins.__import__ or a previous_import_func holds: the result, and the
\* instance that recorded the request (None: it was not recorded)
RECURSIVE import_by(_, _, _, _, _)
import_by(f, w, frame, name, fromlist) ==
    IF f = RealImport
      THEN [r |-> import_(w, name, frame.f_globals, fromlist, 0), recorder |-> None]
    ELSE IF f = OtherImport
      THEN [r |-> [exc |-> "none", obj |-> OtherResult, sys |-> w.sys, att |-> w.att],
            recorder |-> None]
    ELSE IF passes_through(cap[f], frame)
      THEN import_by(cap[f].previous_import_func, w, frame, name, fromlist)
    ELSE [r |-> [exc |-> "none", obj |-> PlaceholderObj(f, cap[f].calls + 1),
                 sys |-> w.sys, att |-> w.att],
          recorder |-> f]

\* the request and its result, as the outcome of the call reports them
ImportCallObj(frame, name, fromlist, obj) ==
    [kind |-> "import_call", path |-> name, name |-> "", frame |-> frame,
     fromlist |-> fromlist, obj |-> obj]

\* the import statement ended (b is what the call gave); its names are
\* bound in the namespace of the code that ran it
ImportCalled(frame, name, fromlist, b) ==
    /\ cap' = IF b.recorder = None THEN cap
              ELSE [cap EXCEPT ![b.recorder] = capturing_import(@, name, fromlist, 0)]
    /\ sys_modules' = b.r.sys
    /\ attached' = b.r.att
    /\ last' = NoCall("import_call", builtins_import, b.r.exc,
                      ImportCallObj(frame, name, fromlist, b.r.obj))
    /\ UNCHANGED << imports, globals_, importers, dict, ncalls >>
    /\ UNCHANGED << builtins_import, namespace, block, funcs, threads >>

\* "import <name>" or "from <name> import <fromlist>" run by other code
\* while a recording function is installed
ImportCall(frame, name, fromlist) ==
    /\ builtins_import \in Capturers
    /\ cap[builtins_import].calls <= MaxStmts
    /\ ImportCalled(frame, name, fromlist,
                    import_by(builtins_import, world, frame, name, fromlist))

\* the frames of other code: a function of the module, the module level of
\* another module, a function of another module
OtherFrames ==
    {Frame(ModuleGlobals, FunctionLocals), Frame(OtherGlobals, OtherGlobals),
     Frame(OtherGlobals, FunctionLocals)}

NextForeign ==
    \/ \E frame \in Frames : Enter(TheCapture, frame)
    \/ \E asname \in {None, "ft"} : ImportStmt(functools, asname)
    \/ FromStmt(0, functools, << Pair("partial", "part") >>)
    \/ ReplaceImport
    \/ \E err \in BlockErrors : Exit(TheCapture, err)
    \/ \E frame \in OtherFrames, name \in {tomli, ex_submod, fakemod},
          fromlist \in {<< >>, << "name" >>} : ImportCall(frame, name, fromlist)

SpecForeign == InitCapture /\ [][NextForeign]_vars

(***************************************************************************)
(* Two capture_imports instances of the module, each entered and left once *)
(* in any order: the with-statements nested, or __enter__ and __exit__     *)
(* called so that the blocks overlap.                                      *)
(***************************************************************************)
NextOverlap ==
    \/ \E c \in Capturers, frame \in Frames : Enter(c, frame)
    \/ \E s \in ImportStmts : ImportStmt(s[1], s[2])
    \/ \E pairs \in PairLists : FromStmt(0, functools, pairs)
    \/ \E c \in Capturers, err \in BlockErrors : Exit(c, err)

SpecOverlap == InitCapture /\ [][NextOverlap]_vars

(***************************************************************************)
(* dir(container) and the handlers of get_module_funcs.                    *)
(***************************************************************************)
\* a list of names as the value an operation returned
ListObj(q) == [kind |-> "list", path |-> q, name |-> ""]

\* dir(container) after "self._importers" (g); d is what dir returned
DirListed(g, d) ==
    /\ importers' = IF g.exc = "none" THEN IsSet(g.importers) ELSE importers
    /\ last' = NoCall("dir", None, d.exc, ListObj(d.list))

\* "dir(container)"
Dir ==
    /\ Constructed
    /\ DirListed(get_importers, builtin_dir(LazyImporter_dir(get_importers)))
    /\ UNCHANGED << imports, globals_, dict, sys_modules, attached, ncalls >>
    /\ UNCHANGED module_vars

\* get_module_funcs after dir(importer) (d): an error of the grouper leaves
\* the module without handlers
ModuleFuncsMade(module_name, g, d) ==
    /\ importers' = IF g.exc = "none" THEN IsSet(g.importers) ELSE importers
    /\ funcs' = IF d.exc = "none"
                  THEN get_module_funcs(module_name, namespace.keys, d)
                  ELSE funcs
    /\ last' = NoCall("get_module_funcs", module_name, d.exc, NoObj)

\* "__getattr__, __dir__ = get_module_funcs(container, module_name)" in the
\* module that holds the container
GetModuleFuncs(module_name) ==
    /\ Constructed
    /\ ~funcs.made
    /\ ModuleFuncsMade(module_name, get_importers,
                       builtin_dir(LazyImporter_dir(get_importers)))
    /\ UNCHANGED << imports, globals_, dict, sys_modules, attached, ncalls >>
    /\ UNCHANGED << builtins_import, cap, namespace, block, threads >>

\* module_setattr that does not bind the value in the module
module_setattr_none(ns, module_name, name, out) == ns

\* "setattr(mod, name, attr)", reached when getattr(importer, name) returned
\* and a module name was given
module_setattr(ns, module_name, name, out) ==
    IF module_name # None /\ out.exc = "none" THEN setitem(ns, name, out.value) ELSE ns

\* the __getattr__ handler h runs for name
HandlerRuns(h, name) ==
    /\ LazyImporter_getattr(h, name)
    /\ namespace' = module_setattr(namespace, h.module_name, name, last')
    /\ UNCHANGED << builtins_import, cap, block, funcs, threads >>

\* the __getattr__ handler called with name, as a function
ModuleGetAttr(name) ==
    /\ funcs.made
    /\ HandlerRuns(Handler(funcs, "module_getattr"), name)

\* the module has the handlers of get_module_funcs as its __getattr__ and
\* __dir__: they were made with its name
Installed == funcs.made /\ funcs.module_name # None

\* the read "module.<name>" found the name in the module (value), or found
\* neither the name nor a __getattr__ of the module (exc)
ModuleReadPlain(name, exc, value) ==
    /\ last' = NoCall("module_read", name, exc, value)
    /\ UNCHANGED container_vars
    /\ UNCHANGED module_vars

\* the read "module.<name>" on the module that holds the container: the
\* interpreter calls the module's __getattr__ only for a name the module's
\* __dict__ lacks
ModuleRead(name) ==
    /\ Constructed
    /\ IF name \in DOMAIN namespace.val
         THEN ModuleReadPlain(name, "none", namespace.val[name])
       ELSE IF Installed
         THEN HandlerRuns(Handler(funcs, "module_read"), name)
       ELSE ModuleReadPlain(name, "AttributeError", ErrorFrom("module", ModuleName))

\* the __dir__ handler that lists the module and the container anew
ModuleDir_recomputed ==
    /\ funcs.made
    /\ last' = NoCall("module_dir", None, "none",
                      ListObj(module_dir_data(funcs.module_name, namespace.keys,
                                  builtin_dir(LazyImporter_dir(get_importers)))))
    /\ UNCHANGED container_vars
    /\ UNCHANGED module_vars

\* the __dir__ handler called: "return dir_data"
ModuleDir ==
    /\ funcs.made
    /\ last' = NoCall("module_dir", None, "none", ListObj(funcs.dir_data))
    /\ UNCHANGED container_vars
    /\ UNCHANGED module_vars

\* "k in q" for a list q
contains(q, k) == \E i \in 1..Len(q) : q[i] = k

\* the dict get_importer_state returns, as a value
StateObj(imported_attributes, lazy_attributes) ==
    [kind |-> "state", path |-> lazy_attributes, name |-> "",
     imported |-> imported_attributes]

\* lazy_attributes that lists every name of dir(importer)
lazy_attributes_all(importer_dir, imported_attributes) == importer_dir

\* "[k for k in importer_dir if k not in imported_attributes]"
lazy_attributes(importer_dir, imported_attributes) ==
    SelectSeq(importer_dir, LAMBDA k : k \notin DOMAIN imported_attributes)

\* "{k: v for k, v in importer.__dict__.items() if k in importer_dir}": of
\* the instance attributes, those that resolution has bound
imported_attributes(importer_dir, d) ==
    [k \in {n \in DOMAIN d : contains(importer_dir, n)} |-> d[k]]

\* the two parts of the dict that get_importer_state returns
importer_state(importer_dir, imported) ==
    StateObj(imported, lazy_attributes(importer_dir, imported))

\* get_importer_state after "importer_dir = dir(importer)" (d), which ran
\* the grouper (g) unless the container held the table
ImporterStateGot(g, d) ==
    /\ importers' = IF g.exc = "none" THEN IsSet(g.importers) ELSE importers
    /\ last' = NoCall("get_importer_state", None, d.exc,
                      IF d.exc # "none" THEN ErrorFrom("group_importers", None)
                      ELSE importer_state(d.list, imported_attributes(d.list, dict)))

\* get_importer_state(container)
GetImporterState ==
    /\ Constructed
    /\ ImporterStateGot(get_importers, builtin_dir(LazyImporter_dir(get_importers)))
    /\ UNCHANGED << imports, globals_, dict, sys_modules, attached, ncalls >>
    /\ UNCHANGED module_vars

\* for every name of the table, an order in which the submodules of its
\* specification are iterated
OrderPicks(tbl) ==
    {f \in [DOMAIN tbl -> UNION {Orders(tbl[k].submodules) : k \in DOMAIN tbl}] :
       \A k \in DOMAIN tbl : f[k] \in Orders(tbl[k].submodules)}

\* the container and the import system while force_imports runs
Forcing(exc, d, sys, att, calls) ==
    [exc |-> exc, dict |-> d, sys |-> sys, att |-> att, ncalls |-> calls]

\* force_imports after LazyImporter.__getattr__ ran do_import for key (r)
force_resolved(key, tbl, st, r) ==
    Forcing(r.exc, bind_import_data(st.dict, r), r.sys, r.att,
            [n \in Names |->
               IF n \in DOMAIN tbl /\ tbl[n] = tbl[key]
                 THEN st.ncalls[n] + 1 ELSE st.ncalls[n]])

\* force_imports at one key: a name already bound is an instance attribute,
\* any other is resolved by LazyImporter.__getattr__
force_one(key, tbl, pick, st) ==
    IF key \in DOMAIN st.dict THEN st
    ELSE force_resolved(key, tbl, st,
           do_import(lookup_importer(tbl, key), globals_,
                     [sys |-> st.sys, att |-> st.att], pick[key]))

\* force_imports over the keys of the table in listing order; the first
\* exception ends it
RECURSIVE force_each(_, _, _, _)
force_each(keys, tbl, pick, st) ==
    IF keys = << >> \/ st.exc # "none" THEN st
    ELSE force_each(Tail(keys), tbl, pick, force_one(Head(keys), tbl, pick, st))

\* force_imports ended in st
Forced(g, st) ==
    /\ importers' = IF g.exc = "none" THEN IsSet(g.importers) ELSE importers
    /\ dict' = st.dict
    /\ sys_modules' = st.sys
    /\ attached' = st.att
    /\ ncalls' = st.ncalls
    /\ last' = Outcome("force_imports", None, st.exc,
                       IF st.exc = "none" THEN NoObj
                       ELSE IF g.exc # "none" THEN ErrorFrom("group_importers", None)
                       ELSE ErrorFrom("do_import", None),
                       st.ncalls # ncalls, << >>, st.sys \ sys_modules,
                       DOMAIN st.dict \ DOMAIN dict)

\* force_imports after the grouper (g) and dir(importer) (d)
ForceListed(g, d) ==
    IF g.exc # "none"
      THEN Forced(g, Forcing(g.exc, dict, sys_modules, attached, ncalls))
      ELSE \E pick \in OrderPicks(g.importers) :
             Forced(g, force_each(d.list, g.importers, pick,
                                  Forcing("none", dict, sys_modules, attached, ncalls)))

\* force_imports(container)
ForceImports ==
    /\ Constructed
    /\ \A n \in Names : ncalls[n] < MaxCalls
    /\ ForceListed(get_importers, builtin_dir(LazyImporter_dir(get_importers)))
    /\ UNCHANGED << imports, globals_ >>
    /\ UNCHANGED module_vars

\* the specifications of the module's container
ModuleImports ==
    { ModuleImport(ex_mod, None),
      ModuleImport(ex_submod, None),
      FromImport(ex_mod, "name", None),
      FromImport(tomli, "missing_attribute", "b"),
      MultiFromImport(ex_submod, << Str("name"), Pair("name2", "a") >>) }

\* the names the module has bound before it makes the handlers
ModuleNames == {<< >>, << "tomli" >>, << "name" >>}

\* a module that declares a container and may make handlers for it
InitModule ==
    \E names \in ModuleNames :
      /\ InitWith(ModuleImports)
      /\ builtins_import = RealImport
      /\ cap = [c \in Capturers |-> NewCapture(FALSE)]
      /\ namespace = BindAll(ModuleNamespace(<< >>),
                             [i \in 1..Len(names) |-> [key |-> names[i], value |-> PlainValue]])
      /\ block = << >>
      /\ funcs = NoFuncs
      /\ threads = NoReads

NextModule ==
    \/ \E name \in Names : GetAttr(name)
    \/ Dir
    \/ \E module_name \in {None, ModuleName} : GetModuleFuncs(module_name)
    \/ \E name \in Names : ModuleGetAttr(name)
    \/ \E name \in Names : ModuleRead(name)
    \/ GetImporterState
    \/ ForceImports
    \/ ModuleDir

SpecModule == InitModule /\ [][NextModule]_vars

(***************************************************************************)
(* Properties.                                                             *)
(***************************************************************************)
\* the lookup table, once the grouper has built it
table == importers.table

\* the last operation was a read that ran do_import
Resolving == last.op = "getattr" /\ last.called

\* C1 as stated: over any sequence of reads of a name, do_import of its
\* specification runs at most once.
C1_AtMostOneCall == \A n \in Names : ncalls[n] <= 1

\* C1, amended: once a read of a name has returned, the name is a direct
\* attribute bound to the object returned, it stays bound to that object,
\* and do_import of its specification does not run again; every later read
\* returns that object.
C1_ResolvedOnce ==
    [][ /\ \A n \in DOMAIN dict :
             /\ n \in DOMAIN dict'
             /\ dict'[n] = dict[n]
             /\ ncalls'[n] = ncalls[n]
        /\ (last'.op = "getattr" /\ last'.exc = "none") =>
             /\ last'.name \in DOMAIN dict'
             /\ dict'[last'.name] = last'.value
             /\ ncalls'[last'.name] = 1 ]_vars

\* a read of a resolved name, served without do_import
C1_Witness ==
    /\ last.op = "getattr"
    /\ last.exc = "none"
    /\ ~last.called
    /\ ncalls[last.name] = 1
    /\ dict[last.name] = last.value

\* the absolute dotted name a module name stands for, given the globals
AbsName(name, globs) ==
    LET level == CountLeadingDots(name)
        psegs == IF globs.package = << >> THEN << >> ELSE split(globs.package)
    IN  IF level = 0 THEN name
        ELSE join(SubSeq(psegs, 1, Len(psegs) - (level - 1)) \o split(lstrip(name)))

\* a dotted name and the packages above it
WithParents(p) == {PrefixPath(split(p), i) : i \in 1..Len(split(p))}

\* the names a specification passes as fromlist
FromlistOf(imp) ==
    IF imp.cls = "FromImport" THEN {imp.attrib_name}
    ELSE IF imp.cls = "MultiFromImport"
      THEN {imp.attrib_names[i].asname : i \in 1..Len(imp.attrib_names)}
    ELSE {}

\* the modules a specification asks the import system for
Requested(imp, globs) ==
    LET named == {imp.module_name} \cup imp.submodules
                   \cup (IF imp.except_module # << >> THEN {imp.except_module} ELSE {})
    IN  UNION {WithParents(AbsName(m, globs)) : m \in named}
          \cup {Child(AbsName(imp.module_name, globs), x) : x \in FromlistOf(imp)}

\* C2 as stated: a read that resolves a name binds no name of another
\* specification and does not load the module of another specification.
C2_OtherModuleNotLoaded ==
    Resolving =>
      \A k \in DOMAIN table :
        table[k] # table[last.name] =>
          /\ k \notin last.bound
          /\ AbsName(table[k].module_name, globals_) \notin last.loaded

\* C2, amended: a read that resolves name n runs do_import of the one
\* specification the table maps n to and of no other, binds no name of
\* another specification, and loads only modules that this specification
\* asks for (its module path, the packages above it, a fallback path,
\* recorded submodules, submodules named in its fromlist); the module of
\* another specification is loaded by the read only if it is one of those.
C2_OnlyMatchingResolved ==
    [][ (last'.op = "getattr" /\ last'.called) =>
          LET t == importers'.table
              imp == t[last'.name]
          IN  /\ ncalls'[last'.name] = ncalls[last'.name] + 1
              /\ \A k \in DOMAIN t :
                   t[k] # imp =>
                     /\ ncalls'[k] = ncalls[k]
                     /\ (k \in DOMAIN dict' => k \in DOMAIN dict)
              /\ (sys_modules' \ sys_modules) \subseteq Requested(imp, globals_) ]_vars

\* a read resolved one specification while another one stays unresolved
C2_Witness ==
    /\ Resolving
    /\ last.exc = "none"
    /\ last.loaded # {}
    /\ \E k \in DOMAIN table :
         /\ table[k] # table[last.name]
         /\ k \notin DOMAIN dict
         /\ ncalls[k] = 0

\* C3: a successful read of a name of a MultiFromImport binds every name of
\* that specification to the attribute of the module it names and returns
\* the one bound to the name read; once a name of a MultiFromImport is
\* bound, no read runs its do_import again.
C3_AllNamesBound ==
    [][ /\ (/\ last'.op = "getattr" /\ last'.called /\ last'.exc = "none"
            /\ importers'.table[last'.name].cls = "MultiFromImport") =>
             LET imp == importers'.table[last'.name]
                 path == AbsName(imp.module_name, globals_)
                 w == [sys |-> sys_modules', att |-> attached']
             IN  \A i \in 1..Len(imp.attrib_names) :
                   LET it == imp.attrib_names[i] IN
                     /\ it.asname \in DOMAIN dict'
                     /\ dict'[it.asname] = getattr(w, path, it.attr).obj
                     /\ dict'[it.asname].kind # "none"
                     /\ (it.asname = last'.name => last'.value = dict'[it.asname])
        /\ \A n \in DOMAIN dict :
             (importers.set /\ n \in DOMAIN table /\ table[n].cls = "MultiFromImport") =>
               \A m \in SameImporter(table, n) :
                 /\ ncalls'[m] = ncalls[m]
                 /\ (last'.op = "getattr" /\ last'.name = m => ~last'.called) ]_vars

\* one read bound two names of a MultiFromImport
C3_Witness ==
    /\ Resolving
    /\ last.exc = "none"
    /\ table[last.name].cls = "MultiFromImport"
    /\ Cardinality(last.bound) = 2
    /\ \A n \in last.bound : ncalls[n] = 1

\* C6: a read of a name that is neither a direct attribute nor a key of the
\* lookup table raises AttributeError, runs no do_import, loads nothing and
\* leaves the direct attributes as they were.
C6_MissingName ==
    [][ (/\ last'.op = "getattr"
         /\ last'.name \notin DOMAIN dict
         /\ importers'.set
         /\ last'.name \notin DOMAIN importers'.table) =>
          /\ last'.exc = "AttributeError"
          /\ ~last'.called
          /\ dict' = dict
          /\ ncalls' = ncalls
          /\ sys_modules' = sys_modules ]_vars

\* an unknown name was read on a container that has resolved something
C6_Witness ==
    /\ last.op = "getattr"
    /\ last.exc = "AttributeError"
    /\ importers.set
    /\ last.name \notin DOMAIN table
    /\ dict # EmptyDict

\* the module a specification names cannot be found
MissingModule(imp, globs) == AbsName(imp.module_name, globs) \notin OnDisk

\* an attribute a from-import names exists neither in the module's body nor
\* as a submodule
MissingAttr(imp, globs) ==
    LET path == AbsName(imp.module_name, globs)
        Absent(a) == a \notin StaticAttrs(path) /\ Child(path, a) \notin OnDisk
    IN  \/ imp.cls = "FromImport" /\ Absent(imp.attrib_name)
        \/ /\ imp.cls = "MultiFromImport"
           /\ \E i \in 1..Len(imp.attrib_names) : Absent(imp.attrib_names[i].attr)

\* C7: a read whose do_import raises leaves the direct attributes exactly
\* as they were and raises; when the module of a ModuleImport, FromImport
\* or MultiFromImport cannot be found the read raises ImportError, when one
\* of the attributes is absent it raises AttributeError, and in both cases
\* none of the specification's names is bound.
C7_AllOrNothing ==
    [][ (last'.op = "getattr" /\ last'.called) =>
          LET t == importers'.table
              imp == t[last'.name]
          IN  /\ last'.exc # "none" => dict' = dict
              /\ (/\ imp.cls \in {"ModuleImport", "FromImport", "MultiFromImport"}
                  /\ MissingModule(imp, globals_)) =>
                    /\ last'.exc = "ImportError"
                    /\ SameImporter(t, last'.name) \cap DOMAIN dict' = {}
              /\ (~MissingModule(imp, globals_) /\ MissingAttr(imp, globals_)) =>
                    /\ last'.exc = "AttributeError"
                    /\ SameImporter(t, last'.name) \cap DOMAIN dict' = {} ]_vars

\* a MultiFromImport failed on its second attribute after fetching the first
C7_Witness ==
    /\ Resolving
    /\ last.exc = "AttributeError"
    /\ table[last.name].cls = "MultiFromImport"
    /\ ~MissingAttr([table[last.name] EXCEPT !.attrib_names = << @[1] >>], globals_)
    /\ SameImporter(table, last.name) \cap DOMAIN dict = {}

\* a plain "import x" / "import x.y": a ModuleImport without bound name
IsPlain(imp) == imp.cls = "ModuleImport" /\ imp.asname = None

\* the names a declared specification binds, in binding order
Binds(imp) ==
    IF imp.cls = "MultiFromImport" THEN asnames(imp)
    ELSE IF IsPlain(imp) THEN << module_basename(imp) >>
    ELSE << imp.asname >>

BindsName(imp, n) == \E i \in 1..Len(Binds(imp)) : Binds(imp)[i] = n

\* a bound name is declared twice, other than by two plain ModuleImports
NameDeclaredTwice(imps) ==
    \/ \E i, j \in 1..Len(imps) :
         /\ i < j
         /\ ~(IsPlain(imps[i]) /\ IsPlain(imps[j]))
         /\ \E n \in Names : BindsName(imps[i], n) /\ BindsName(imps[j], n)
    \/ \E i \in 1..Len(imps) :
         \E k, l \in 1..Len(Binds(imps[i])) : k < l /\ Binds(imps[i])[k] = Binds(imps[i])[l]

\* the grouper has been run and raised ValueError: no table, nothing resolved
GroupingRejected ==
    /\ ~importers.set
    /\ dict = EmptyDict
    /\ \A n \in Names : ncalls[n] = 0
    /\ last.op \in {"init", "getattr", "_importers"}
    /\ ~last.called
    /\ (last.op \in {"getattr", "_importers"} => last.exc = "ValueError")

\* C4: a specification list that declares a bound name twice is rejected by
\* the grouper with ValueError whenever the grouper runs, for every pair of
\* classes and inside one MultiFromImport, and no lookup table is stored;
\* a list that repeats a name only among plain ModuleImports (and has no
\* relative specification without globals) is accepted; no ValueError comes
\* out of a do_import.
C4_ClashRejected ==
    /\ NameDeclaredTwice(imports) => GroupingRejected
    /\ (/\ ~NameDeclaredTwice(imports)
        /\ globals_.given \/ ~HasRelative(imports)
        /\ last.op \in {"getattr", "_importers"}) => importers.set /\ last.exc # "ValueError"
    /\ last.called => last.exc # "ValueError"

\* a read on a container whose list binds a name twice raised ValueError
C4_Witness ==
    /\ NameDeclaredTwice(imports)
    /\ last.op = "getattr"
    /\ last.exc = "ValueError"
    /\ \E i, j \in 1..Len(imports) :
         /\ i # j
         /\ imports[i].cls = "TryExceptImport"
         /\ imports[j].cls = "MultiFromImport"
         /\ BindsName(imports[j], imports[i].asname)

\* a plain ModuleImport and a specification that binds its base segment
MixedClash(imps, i, j) ==
    /\ IsPlain(imps[i])
    /\ ~IsPlain(imps[j])
    /\ BindsName(imps[j], module_basename(imps[i]))

\* C5: a plain ModuleImport with base segment b together with a
\* specification that binds b explicitly is rejected with ValueError
\* whichever of the two is declared first; no table is stored.
C5_MixedClashBothOrders ==
    (\E i, j \in 1..Len(imports) : MixedClash(imports, i, j)) => GroupingRejected

\* the bound name was declared first, the plain import after it
C5_Witness ==
    /\ \E i, j \in 1..Len(imports) : j < i /\ MixedClash(imports, i, j)
    /\ ~(\E i, j \in 1..Len(imports) : i < j /\ MixedClash(imports, i, j))
    /\ last.op = "getattr"
    /\ last.exc = "ValueError"

\* the entries of a sequence, and whether none occurs twice
Range(q) == {q[i] : i \in 1..Len(q)}
NoRepeat(q) == \A i, j \in 1..Len(q) : q[i] = q[j] => i = j

\* C8: resolving a _SubmoduleImports asks the import system for recorded
\* submodule paths, none twice, and for the base module after them.  When
\* it returns, every recorded path has been asked for and is loaded, a path
\* loaded by this read is an attribute of its package, and the base module
\* is returned and bound under the base segment.  When a recorded path
\* cannot be found the read raises ImportError at that path, does not ask
\* for the base module and does not bind the base name.  The read loads no
\* module other than the base module, the recorded paths and the packages
\* above them: a submodule that is not recorded and was not an attribute of
\* the package before the read is not one after it.
C8_SubmodulesLoaded ==
    [][ (/\ last'.op = "getattr" /\ last'.called
         /\ importers'.table[last'.name].cls = "_SubmoduleImports") =>
          LET imp == importers'.table[last'.name]
              base == last'.name
              log == last'.log
              subs == imp.submodules
          IN  /\ NoRepeat(log)
              /\ Range(log) \subseteq subs \cup {Tokens(base)}
              /\ last'.exc = "none" =>
                   /\ Len(log) = Cardinality(subs) + 1
                   /\ log[Len(log)] = Tokens(base)
                   /\ Range(SubSeq(log, 1, Len(log) - 1)) = subs
                   /\ subs \subseteq sys_modules'
                   /\ \A p \in subs : p \notin sys_modules => p \in attached'
                   /\ last'.value = ModuleObj(Tokens(base))
                   /\ base \in DOMAIN dict' /\ dict'[base] = last'.value
                   /\ last'.bound = {base}
              /\ (\E p \in subs : p \notin OnDisk) =>
                   /\ last'.exc = "ImportError"
                   /\ log[Len(log)] \notin OnDisk
                   /\ Tokens(base) \notin Range(log)
                   /\ base \notin DOMAIN dict'
              /\ (\A p \in subs : p \in OnDisk) => last'.exc = "none"
              /\ (sys_modules' \ sys_modules)
                   \subseteq UNION {WithParents(p) : p \in subs \cup {Tokens(base)}}
              /\ \A p \in OnDisk :
                   (p \notin subs /\ p \notin attached) => p \notin attached' ]_vars

\* an aggregate of two submodule paths was resolved and loaded both
C8_Witness ==
    /\ Resolving
    /\ last.exc = "none"
    /\ table[last.name].cls = "_SubmoduleImports"
    /\ Cardinality(table[last.name].submodules) = 2
    /\ table[last.name].submodules \subseteq last.loaded

\* what the import system answers to "__import__(name)" in the state
\* before the step: "none" when the path loads, else the error raised
LoadOutcome(name, globs) ==
    import_(world, lstrip(name), globs, << >>, CountLeadingDots(name)).exc

\* the same for the fallback path, asked after the primary path failed
FallbackOutcome(imp, globs) ==
    LET r == import_(world, lstrip(imp.module_name), globs, << >>,
                     CountLeadingDots(imp.module_name))
    IN  import_(World(r), lstrip(imp.except_module), globs, << >>,
                CountLeadingDots(imp.except_module)).exc

\* C9: a TryExceptImport whose primary path loads resolves to the primary
\* module and asks the import system for the primary path only; one whose
\* primary path is not found and whose fallback path loads resolves to the
\* fallback module.  In both cases exactly the bound name is bound, to the
\* module returned.
C9_FallbackSemantics ==
    [][ (/\ last'.op = "getattr" /\ last'.called
         /\ importers'.table[last'.name].cls = "TryExceptImport") =>
          LET imp == importers'.table[last'.name]
              primary == LoadOutcome(imp.module_name, globals_)
              fallback == FallbackOutcome(imp, globals_)
              Bound(path) ==
                /\ last'.exc = "none"
                /\ last'.value = ModuleObj(AbsName(path, globals_))
                /\ last'.name = imp.asname
                /\ DOMAIN dict' = DOMAIN dict \cup {imp.asname}
                /\ dict'[imp.asname] = last'.value
          IN  /\ primary = "none" =>
                   /\ Bound(imp.module_name)
                   /\ last'.log = << lstrip(imp.module_name) >>
              /\ (primary = "ImportError" /\ fallback = "none") =>
                   /\ Bound(imp.except_module)
                   /\ last'.log = << lstrip(imp.module_name), lstrip(imp.except_module) >> ]_vars

\* a TryExceptImport was resolved to its fallback module
C9_Witness ==
    /\ Resolving
    /\ last.exc = "none"
    /\ table[last.name].cls = "TryExceptImport"
    /\ Len(last.log) = 2
    /\ last.value = ModuleObj(table[last.name].except_module)

\* C10: TryExceptImport and TryExceptFromImport ask for the fallback path
\* exactly when the primary load raised ImportError; an error of another
\* kind in the primary load reaches the caller and the fallback is not
\* asked for; an error of the fallback load reaches the caller; an error
\* raised after the primary load succeeded reaches the caller and the
\* fallback is not asked for.
C10_OnlyImportErrorCaught ==
    [][ (/\ last'.op = "getattr" /\ last'.called
         /\ importers'.table[last'.name].cls \in {"TryExceptImport", "TryExceptFromImport"}) =>
          LET imp == importers'.table[last'.name]
              primary == LoadOutcome(imp.module_name, globals_)
              fallback == FallbackOutcome(imp, globals_)
              asked == Len(last'.log) = 2
          IN  /\ last'.log[1] = lstrip(imp.module_name)
              /\ asked <=> primary = "ImportError"
              /\ asked => last'.log[2] = lstrip(imp.except_module)
              /\ primary \notin {"none", "ImportError"} =>
                   /\ last'.exc = primary
                   /\ dict' = dict
              /\ (primary = "ImportError" /\ fallback # "none") =>
                   /\ last'.exc = fallback
                   /\ dict' = dict
              /\ (primary = "none" /\ last'.exc # "none") => ~asked /\ dict' = dict ]_vars

\* the primary module raised an error that is not an ImportError
C10_Witness ==
    /\ Resolving
    /\ last.exc = "RuntimeError"
    /\ table[last.name].cls = "TryExceptFromImport"
    /\ last.log = << badmod >>
    /\ tomli \notin sys_modules

(***************************************************************************)
(* Capture scopes.                                                         *)
(***************************************************************************)
\* the step is a successful __enter__ of instance c
EnterStep(c) == cap[c].at = "pending" /\ cap'[c].at = "block"

\* the step is the __exit__ of instance c
ExitStep(c) == cap[c].at = "block" /\ cap'[c].at = "done"

\* C11: a scope that was entered saved the import function installed at that
\* time, keeps it while its block runs, and when its __exit__ returns or
\* raises builtins.__import__ is that function and not the scope's own
\* recording function.
C11_ImportRestored ==
    [][\A c \in Capturers :
         /\ EnterStep(c) =>
              /\ cap'[c].previous_import_func = builtins_import
              /\ builtins_import' = c
         /\ (cap[c].at = "block" /\ cap'[c].at = "block") =>
              cap'[c].previous_import_func = cap[c].previous_import_func
         /\ ExitStep(c) =>
              /\ builtins_import' # cap[c].import_func
              /\ builtins_import' = cap[c].previous_import_func]_vars

\* a block that ended with an error, whose __exit__ raised CaptureError for an
\* unnamed submodule import, and the import function is the original again
C11_Witness ==
    /\ last.op = "exit" /\ last.exc = "CaptureError"
    /\ last.value = ExcObj("RuntimeError")
    /\ last.log # << >>
    /\ builtins_import = RealImport

\* the bindings a specification list makes: module, attribute and bound name
BindingsOf(imp) ==
    IF imp.cls = "MultiFromImport"
      THEN {Binding(imp.module_name, imp.attrib_names[j].attr, imp.attrib_names[j].asname) :
              j \in 1..Len(imp.attrib_names)}
      ELSE {Binding(imp.module_name, None, imp.asname)}

SpecBindings(imps) == UNION {BindingsOf(imps[i]) : i \in 1..Len(imps)}

\* the bindings of the block that are in place when it ends: the last one of
\* each name
BlockBindings ==
    {block[i] : i \in {i \in 1..Len(block) :
                         \A j \in (i + 1)..Len(block) : block[j].key # block[i].key}}

\* the specifications the step appended to the container's list
Appended == SubSeq(imports', Len(imports) + 1, Len(imports'))

\* the step kept the list and appended specifications that make exactly the
\* bindings of the block, each once
Extended ==
    /\ Len(imports') >= Len(imports)
    /\ SubSeq(imports', 1, Len(imports)) = imports
    /\ SpecBindings(Appended) = BlockBindings
    /\ \A i, j \in 1..Len(Appended) :
         i # j => BindingsOf(Appended[i]) \cap BindingsOf(Appended[j]) = {}

\* C12 as stated: whenever __exit__ completes, returning or raising, the
\* container's list has been extended with the specifications of the imports
\* recorded in the block.
C12_AlwaysExtended == [][\A c \in Capturers : ExitStep(c) => Extended]_vars

\* C12: when __exit__ does not raise CaptureError, whatever way the block
\* ended, the container's list has been extended with the specifications of
\* the names the block imported; when it raises CaptureError the list is
\* unchanged.
C12_ExtendedUnlessCaptureError ==
    [][\A c \in Capturers :
         ExitStep(c) =>
           IF last'.exc = "CaptureError" THEN imports' = imports ELSE Extended]_vars

\* a block that imported names and ended with an error, after which the
\* container holds their specifications
C12_Witness ==
    /\ last.op = "exit" /\ last.exc = "none"
    /\ last.value = ExcObj("RuntimeError")
    /\ Len(block) = 2
    /\ \E i \in 1..Len(imports) : imports[i].cls = "MultiFromImport"

\* C13: if at exit builtins.__import__ is not the recording function of the
\* scope, __exit__ raises CaptureError and builtins.__import__ is the
\* function saved at entry.
C13_ReplacementDetected ==
    [][\A c \in Capturers :
         (ExitStep(c) /\ builtins_import # cap[c].import_func) =>
           /\ last'.exc = "CaptureError"
           /\ builtins_import' = cap[c].previous_import_func]_vars

\* other code replaced the import function in a block that had recorded an
\* import; the exit raised and put the original function back
C13_Witness ==
    /\ last.op = "exit" /\ last.exc = "CaptureError" /\ last.log = << >>
    /\ block # << >>
    /\ cap[TheCapture].previous_import_func = RealImport
    /\ builtins_import = RealImport

\* the fields __enter__ tests are as __init__ left them
Idle(c) == cap[c].import_func = None /\ cap[c].previous_import_func = None

\* the step is an __enter__ of c that fails and changes nothing
EnterFails(c) ==
    /\ last'.exc = "CaptureError"
    /\ builtins_import' = builtins_import
    /\ cap' = cap
    /\ block' = block

\* the step is an __enter__ of instance c
EnterCall(c) == last'.op = "enter" /\ last'.name = c

\* C14 as stated: entering an instance whose block is open fails and changes
\* nothing, and after its exit the instance is idle again.
C14_IdleAfterExit ==
    [][\A c \in Capturers :
         /\ (cap[c].at = "block" /\ EnterCall(c)) => EnterFails(c)
         /\ ExitStep(c) => Idle(c)']_vars

\* C14: entering an instance whose block is open fails with CaptureError and
\* changes neither builtins.__import__ nor the recorded log; after its exit
\* the instance no longer intercepts, but it keeps its saved functions and is
\* spent: entering it again fails the same way.
C14_SpentAfterExit ==
    [][\A c \in Capturers :
         /\ (cap[c].at = "block" /\ EnterCall(c)) => EnterFails(c)
         /\ ExitStep(c) => (builtins_import' # c /\ ~Idle(c)')
         /\ (cap[c].at = "done" /\ EnterCall(c)) => EnterFails(c)]_vars

\* an instance whose scope has ended was entered again at module level of
\* the container's module, and the call failed
C14_Witness ==
    /\ cap[TheCapture].at = "done"
    /\ ~cap[TheCapture].auto_export
    /\ last.op = "enter" /\ last.exc = "CaptureError"
    /\ last.value = FrameObj(Frame(ModuleGlobals, ModuleGlobals))
    /\ globals_ = ModuleGlobals

\* C15: __enter__ fails with CaptureError, leaving builtins.__import__ and the
\* log alone, when the caller's locals are not its globals, when its globals
\* are not the container's, and when auto_export is set and the namespace
\* defines __getattr__ or __dir__.
C15_EnterRejected ==
    [][\A c \in Capturers :
         (/\ EnterCall(c)
          /\ \/ last'.value.name = "function"
             \/ GlobalsOf(last'.value.path) # globals_
             \/ /\ cap[c].auto_export
                /\ {"__getattr__", "__dir__"} \cap DOMAIN namespace.val # {})
         => EnterFails(c)]_vars

\* a new instance of the container's module was entered from a function
C15_Witness ==
    /\ cap[TheCapture].at = "pending"
    /\ ~cap[TheCapture].auto_export
    /\ globals_ = ModuleGlobals
    /\ last.op = "enter" /\ last.exc = "CaptureError"
    /\ last.value = FrameObj(Frame(ModuleGlobals, FunctionLocals))

\* C16: a block with the one statement "import functools" on an empty
\* container leaves the list [ModuleImport("functools")]; "import functools
\* as ft" leaves [ModuleImport("functools", "ft")] and "import importlib.util
\* as util" leaves [ModuleImport("importlib.util", "util")].
C16_ModuleRoundTrip ==
    [][(ExitStep(TheCapture) /\ imports = << >> /\ last'.exc = "none" /\ Len(block) = 1) =>
         /\ block[1] = Binding(functools, None, "functools") =>
              imports' = << ModuleImport(functools, None) >>
         /\ block[1] = Binding(functools, None, "ft") =>
              imports' = << ModuleImport(functools, "ft") >>
         /\ block[1] = Binding(importlib_util, None, "util") =>
              imports' = << ModuleImport(importlib_util, "util") >>]_vars

\* the names of the block in the order in which they were first bound
RECURSIVE FirstBound(_, _)
FirstBound(q, seen) ==
    IF q = << >> THEN << >>
    ELSE IF Head(q).key \in seen THEN FirstBound(Tail(q), seen)
    ELSE << Head(q).key >> \o FirstBound(Tail(q), seen \cup {Head(q).key})

\* the binding of name k that is in place when the block ends
FinalBinding(k) == CHOOSE b \in BlockBindings : b.key = k

\* the names bound by from-imports of module m, in that order
FromNames(m) ==
    SelectSeq(FirstBound(block, {}),
              LAMBDA k : FinalBinding(k).attrib # None /\ FinalBinding(k).module_name = m)

\* the (attribute, bound name) pairs expected for module m
ExpectedPairs(m) ==
    [i \in 1..Len(FromNames(m)) |-> Pair(FinalBinding(FromNames(m)[i]).attrib, FromNames(m)[i])]

\* the MultiFromImports among the specifications appended
AppendedMulti == SelectSeq(Appended, LAMBDA imp : imp.cls = "MultiFromImport")

\* C17: the from-imports of a block are appended as exactly one
\* MultiFromImport per source module, whose pairs list the names imported
\* from it in the order in which they were bound; the list depends on the
\* names bound only, not on the statements that bound them.
C17_FromImportsMerged ==
    [][\A c \in Capturers :
         (ExitStep(c) /\ last'.exc # "CaptureError") =>
           /\ \A i, j \in 1..Len(AppendedMulti) :
                AppendedMulti[i].module_name = AppendedMulti[j].module_name => i = j
           /\ {AppendedMulti[i].module_name : i \in 1..Len(AppendedMulti)}
                = {b.module_name : b \in {b \in BlockBindings : b.attrib # None}}
           /\ \A i \in 1..Len(AppendedMulti) :
                AppendedMulti[i].attrib_names = ExpectedPairs(AppendedMulti[i].module_name)]_vars

\* two statements imported partial and lru_cache from functools and the
\* container holds the one MultiFromImport of both
C17_Witness ==
    /\ last.op = "exit" /\ last.exc = "none"
    /\ cap[TheCapture].calls = 2
    /\ imports = << MultiFromImport(functools,
                                    << Pair("partial", "part"), Pair("lru_cache", "lru") >>) >>

\* "import a.b" with no bound name
UnnamedSubmodule(b) ==
    /\ b.attrib = None
    /\ Len(split(b.module_name)) > 1
    /\ b.key = split(b.module_name)[1]

\* C18: when a block that ran "import a.b" with no bound name ends (and the
\* import function was not replaced), __exit__ raises CaptureError whose
\* message names a.b, with builtins.__import__ restored.
C18_UnnamedSubmoduleRejected ==
    [][\A c \in Capturers :
         (/\ ExitStep(c)
          /\ builtins_import = cap[c].import_func
          /\ \E i \in 1..Len(block) : UnnamedSubmodule(block[i]))
         => /\ last'.exc = "CaptureError"
            /\ \E i \in 1..Len(block) :
                 UnnamedSubmodule(block[i]) /\ last'.log = << block[i].module_name >>
            /\ builtins_import' = cap[c].previous_import_func]_vars

(***************************************************************************)
(* Listings.                                                               *)
(***************************************************************************)
\* the names of the list q
Elements(q) == {q[i] : i \in 1..Len(q)}

\* q is in ascending order; strictly, when no name may appear twice
Ascending(q, strictly) ==
    \A i, j \in 1..Len(q) :
      i < j => IF strictly THEN Rank(q[i]) < Rank(q[j]) ELSE Rank(q[i]) <= Rank(q[j])

\* how often the name n is in the list q
Count(q, n) == Cardinality({i \in 1..Len(q) : q[i] = n})

\* what dir(container) gives for a container with these fields
ListingOf(imps, globs, tbl) ==
    builtin_dir(LazyImporter_dir(IF tbl.set THEN [exc |-> "none", importers |-> tbl.table]
                                 ELSE group_importers(imps, globs)))

\* C19: whenever dir(container) returns, the list is in ascending order with
\* no name twice, and its names are the keys of the lookup table together
\* with the names that resolution has bound as direct attributes; no
\* operation, resolving a name included, changes what dir(container) gives.
C19_ListingIsSortedUnion ==
    [][/\ (last'.op = "dir" /\ last'.exc = "none") =>
            /\ Ascending(last'.value.path, TRUE)
            /\ Elements(last'.value.path) = DOMAIN importers'.table \cup DOMAIN dict'
       /\ ListingOf(imports', globals_', importers') = ListingOf(imports, globals_, importers)]_vars

\* C19 witness: dir(container) returned while names were bound as direct
\* attributes and other names of the table were not
C19_Witness ==
    /\ last.op = "dir" /\ last.exc = "none"
    /\ DOMAIN dict # {}
    /\ DOMAIN importers.table \ DOMAIN dict # {}

\* C20: the handlers are made once and their list does not change: it holds,
\* in ascending order, each name as often as it was among the keys of the
\* module at that time plus once if the lookup table has it (the keys of the
\* table alone when no module name was given); every call of the __dir__
\* handler returns that list, whatever was resolved in between.
C20_ModuleListingFixed ==
    [][/\ funcs.made => funcs' = funcs
       /\ (~funcs.made /\ funcs'.made) =>
            /\ Ascending(funcs'.dir_data, FALSE)
            /\ \A n \in Elements(NameOrder) :
                 Count(funcs'.dir_data, n) =
                   (IF funcs'.module_name # None THEN Count(namespace.keys, n) ELSE 0)
                   + (IF n \in DOMAIN importers'.table THEN 1 ELSE 0)
       /\ last'.op = "module_dir" => last'.value.path = funcs.dir_data]_vars

\* C20 witness: the __dir__ handler is called after the __getattr__ handler
\* has resolved a name and bound it in the module
C20_Witness ==
    /\ last.op = "module_dir"
    /\ funcs.module_name # None
    /\ \E n \in DOMAIN dict : Count(namespace.keys, n) = 1 /\ Count(funcs.dir_data, n) = 1
    /\ Len(namespace.keys) + Cardinality(DOMAIN importers.table) > Len(funcs.dir_data)

(***************************************************************************)
(* The handlers of get_module_funcs.                                       *)
(***************************************************************************)
\* the operation with outcome out, begun with the module's names ns, ran
\* the __getattr__ handler
ViaHandler(out, ns) ==
    \/ out.op = "module_getattr"
    \/ out.op = "module_read" /\ out.name \notin DOMAIN ns.val /\ Installed

\* C21: a call of the __getattr__ handler for a name the lookup table lacks
\* raises AttributeError; no do_import runs, nothing is loaded and nothing
\* is bound; when the handlers were made with a module name the message
\* names that module, not the class of the container.
C21_HandlerMissNamesModule ==
    [][ (/\ ViaHandler(last', namespace)
         /\ importers'.set
         /\ last'.name \notin DOMAIN importers'.table) =>
          /\ last'.exc = "AttributeError"
          /\ ~last'.called
          /\ ncalls' = ncalls /\ sys_modules' = sys_modules
          /\ dict' = dict /\ namespace' = namespace
          /\ (funcs.module_name # None =>
                /\ last'.value.name = funcs.module_name
                /\ last'.value.name # ClassName) ]_vars

\* C21 witness: the handler of a module was asked for a name the table lacks
C21_Witness ==
    /\ last.op = "module_read"
    /\ funcs.module_name # None
    /\ importers.set /\ DOMAIN importers.table # {}
    /\ last.name \notin DOMAIN importers.table
    /\ last.exc = "AttributeError"

\* C22: with a module name given, a query that the handler answers binds
\* the value under that name in the module; from then on the name stays
\* bound in the module and a read of it on the module returns the module's
\* value without running the handler or any do_import; and a do_import
\* returns only for a specification none of whose names is bound yet on the
\* container, where all of them stay bound after it, so no specification
\* is resolved twice.
C22_HandlerBindsInModule ==
    [][ /\ (ViaHandler(last', namespace) /\ last'.exc = "none" /\ funcs.module_name # None) =>
             /\ last'.name \in DOMAIN namespace'.val
             /\ namespace'.val[last'.name] = last'.value
        /\ \A n \in DOMAIN namespace.val : n \in DOMAIN namespace'.val
        /\ (last'.op = "module_read" /\ last'.name \in DOMAIN namespace.val) =>
             /\ last'.exc = "none" /\ ~last'.called
             /\ last'.value = namespace.val[last'.name]
             /\ ncalls' = ncalls /\ dict' = dict /\ namespace' = namespace
        /\ (/\ last'.op \in {"getattr", "module_getattr", "module_read"}
            /\ last'.called /\ last'.exc = "none") =>
             \A n \in SameImporter(importers'.table, last'.name) :
               n \notin DOMAIN dict /\ n \in DOMAIN dict'
        /\ \A n \in DOMAIN dict : n \in DOMAIN dict' /\ dict'[n] = dict[n] ]_vars

\* C22 witness: the module is read for a name that an earlier read of the
\* module resolved through the handler
C22_Witness ==
    /\ last.op = "module_read" /\ ~last.called /\ last.exc = "none"
    /\ Installed
    /\ last.name \in DOMAIN dict
    /\ ncalls[last.name] = 1
    /\ last.value = dict[last.name]

\* the exception of a read that failed after it called do_import: the one
\* do_import raised
ResolutionError == ErrorFrom("do_import", None)

\* C23: a read that fails while its specification is resolved raises the
\* exception that do_import raised, whether it is a read of the container,
\* a call of the __getattr__ handler or a read of the module that runs it.
C23_ResolutionErrorUnmodified ==
    [][ (/\ last'.op \in {"getattr", "module_getattr", "module_read"}
         /\ last'.called
         /\ last'.exc # "none") => last'.value = ResolutionError ]_vars

(***************************************************************************)
(* get_importer_state and force_imports.                                   *)
(***************************************************************************)
\* C24: whenever get_importer_state returns, imported_attributes maps the
\* names resolution has bound, each to the value bound; lazy_attributes
\* holds the other keys of the lookup table in ascending order, none twice;
\* the two have no name in common and together they are the names of
\* dir(container); the call runs no do_import, loads and binds nothing.
C24_StateIsPartition ==
    [][ (last'.op = "get_importer_state" /\ last'.exc = "none") =>
          /\ DOMAIN last'.value.imported = DOMAIN dict
          /\ \A n \in DOMAIN dict : last'.value.imported[n] = dict[n]
          /\ Ascending(last'.value.path, TRUE)
          /\ Elements(last'.value.path) = DOMAIN importers'.table \ DOMAIN dict
          /\ Elements(last'.value.path) \cap DOMAIN last'.value.imported = {}
          /\ Elements(last'.value.path) \cup DOMAIN last'.value.imported
               = Elements(ListingOf(imports, globals_, importers).list)
          /\ ~last'.called
          /\ ncalls' = ncalls /\ dict' = dict /\ sys_modules' = sys_modules ]_vars

\* C24 witness: get_importer_state returned with names in both parts
C24_Witness ==
    /\ last.op = "get_importer_state" /\ last.exc = "none"
    /\ DOMAIN last.value.imported # {}
    /\ last.value.path # << >>

\* C25: when force_imports returns, every key of the lookup table is bound
\* (lazy_attributes is empty); the names bound before keep their values and
\* no do_import ran for them; for every other key do_import of its
\* specification ran once; and on a container whose keys are all bound, as
\* after a first call, it runs no do_import, loads nothing and leaves every
\* bound value as it was.
C25_ForceImportsIdempotent ==
    [][ (last'.op = "force_imports" /\ last'.exc = "none") =>
          /\ DOMAIN dict' = DOMAIN importers'.table
          /\ lazy_attributes(ListingOf(imports', globals_', importers').list, dict') = << >>
          /\ \A n \in DOMAIN dict : dict'[n] = dict[n] /\ ncalls'[n] = ncalls[n]
          /\ \A n \in DOMAIN importers'.table \ DOMAIN dict : ncalls'[n] = ncalls[n] + 1
          /\ (DOMAIN dict = DOMAIN importers'.table) =>
               /\ ~last'.called
               /\ ncalls' = ncalls /\ dict' = dict
               /\ sys_modules' = sys_modules /\ attached' = attached ]_vars

\* C25 witness: force_imports resolved some names and skipped others
\* that were bound before
C25_Witness ==
    /\ last.op = "force_imports" /\ last.exc = "none"
    /\ last.called
    /\ last.bound # {}
    /\ DOMAIN dict \ last.bound # {}

\* C25 second witness: force_imports was called on a container it had
\* nothing to resolve on
C25_Again ==
    /\ last.op = "force_imports" /\ last.exc = "none"
    /\ ~last.called
    /\ DOMAIN dict # {}

(***************************************************************************)
(* Construction and validation.                                            *)
(***************************************************************************)
\* what the grouper gives for the container's list
Grouped == group_importers(imports, globals_)

\* the operations that read "self._importers"
TableOps ==
    {"getattr", "_importers", "dir", "get_module_funcs", "module_getattr",
     "get_importer_state", "force_imports"}

\* C26: a constructor called with eager_process=True ends as the grouper
\* does: it raises what the grouper raises, and otherwise the container
\* holds the table; called without it, the constructor returns whatever the
\* list and leaves the container without a table; and as long as the
\* container has no table, an operation that reads it on a list the grouper
\* rejects raises the grouper's exception.
C26_EagerProcess ==
    /\ [](last.op = "init" =>
            IF last.name = EagerProcess(TRUE)
              THEN /\ last.exc = Grouped.exc
                   /\ Grouped.exc = "none" => importers = IsSet(Grouped.importers)
                   /\ Grouped.exc # "none" => ~importers.set
              ELSE last.exc = "none" /\ ~importers.set)
    /\ [][ (/\ Constructed /\ ~importers.set
            /\ Grouped.exc # "none"
            /\ last'.op \in TableOps) =>
             /\ last'.exc = Grouped.exc
             /\ ~last'.called
             /\ ~importers'.set ]_vars

\* C26 witness: a container made without eager_process on a list the
\* grouper rejects raised ValueError at a read
C26_Witness ==
    /\ last.op \in {"getattr", "dir"}
    /\ last.exc = "ValueError"
    /\ ~importers.set
    /\ Grouped.exc = "ValueError"

\* C26 second witness: the constructor raised
C26_ConstructorRaised ==
    /\ last.op = "init"
    /\ last.name = EagerProcess(TRUE)
    /\ last.exc = "ValueError"

\* the module path of the specification starts with a dot
StartsWithDot(imp) == imp.module_name # << >> /\ Head(imp.module_name) = Dot

\* the list holds a specification whose module path starts with a dot
DeclaresRelative(imps) == \E i \in 1..Len(imps) : StartsWithDot(imps[i])

\* the grouper has run on the container's list: in the constructor, or at a
\* read
GrouperRan ==
    \/ last.op = "init" /\ last.name = EagerProcess(TRUE)
    \/ last.op \in {"getattr", "_importers"}

\* C27: on a container made without globals, a list that holds a relative
\* specification of any class makes the grouper raise ValueError every time
\* it runs, and no table is stored; on a container made with globals such a
\* list is accepted (the grouper returns and the table is stored) unless it
\* declares a bound name twice.
C27_RelativeNeedsGlobals ==
    /\ (DeclaresRelative(imports) /\ ~globals_.given) =>
          /\ Grouped.exc = "ValueError"
          /\ GroupingRejected
          /\ GrouperRan => last.exc = "ValueError"
    /\ (DeclaresRelative(imports) /\ globals_.given /\ ~NameDeclaredTwice(imports)) =>
          /\ Grouped.exc = "none"
          /\ GrouperRan => importers.set /\ last.exc # "ValueError"

\* C27 witness: a read on a container without globals whose only relative
\* specification is a TryExceptFromImport raised ValueError
C27_Witness ==
    /\ last.op = "getattr" /\ last.exc = "ValueError"
    /\ ~globals_.given
    /\ ~NameDeclaredTwice(imports)
    /\ \E i \in 1..Len(imports) :
         /\ imports[i].cls = "TryExceptFromImport" /\ StartsWithDot(imports[i])
         /\ \A j \in 1..Len(imports) : j # i => ~StartsWithDot(imports[j])

\* C27 second witness: the same kind of list, grouped on a container with
\* globals
C27_Accepted ==
    /\ last.op = "getattr" /\ importers.set
    /\ globals_.given
    /\ \E i \in 1..Len(imports) :
         imports[i].cls = "TryExceptFromImport" /\ StartsWithDot(imports[i])

(***************************************************************************)
(* The specification classes: constructors, equality, ImportBase.          *)
(***************************************************************************)
\* the names a constructor call asks to bind
AskedNames(c) ==
    IF c.cls = "MultiFromImport"
      THEN { c.attrib_names[i].asname : i \in 1..Len(c.attrib_names) }
    ELSE IF c.cls = "FromImport" /\ c.asname = None THEN { c.attrib_name }
    ELSE IF c.asname = None THEN {} ELSE { c.asname }

\* the call has one of the two input-shape errors
ShapeError(c) ==
    \/ c.cls = "ModuleImport" /\ StartsWithDot(c) /\ c.asname = None
    \/ AskedNames(c) \cap {"", NotIdentifier} # {}

\* a constructor call raises ValueError exactly when its input has a shape
\* error, and then constructs nothing
ConstructorsValidate ==
    last'.op = "new" =>
      IF ShapeError(last'.value)
        THEN last'.exc = "ValueError" /\ imports' = imports
        ELSE last'.exc = "none" /\ Len(imports') = Len(imports) + 1

\* a constructed specification with level > 0 binds names of its own, all
\* identifiers, and none taken from its path
RelativeHasBoundName ==
    \A i \in 1..Len(imports) :
      StartsWithDot(imports[i]) =>
        /\ ~IsPlain(imports[i])
        /\ Len(Binds(imports[i])) > 0
        /\ \A k \in 1..Len(Binds(imports[i])) :
             Binds(imports[i])[k] \notin {"", NotIdentifier, None}

\* C28: the constructors raise ValueError for a relative ModuleImport with
\* no bound name and for a bound name that is no identifier, in all five
\* classes, and for nothing else; so every constructed specification with
\* level > 0 has a bound name
C28_ShapeErrorsAtConstruction ==
    /\ []RelativeHasBoundName
    /\ [][ConstructorsValidate]_vars

\* a relative ModuleImport with no bound name was just rejected, next to a
\* relative specification that was constructed
C28_Witness ==
    /\ last.op = "new" /\ last.exc = "ValueError"
    /\ last.value.cls = "ModuleImport"
    /\ StartsWithDot(last.value) /\ last.value.asname = None
    /\ DeclaresRelative(imports)

\* C29: two specifications compare equal if and only if they are of the
\* same class and all their fields are equal
C29_EqualityIsStructural ==
    last.op = "eq" =>
      ((last.value.name = "True")
         <=> (imports[last.value.path[1]] = imports[last.value.path[2]]))

\* the number of leading dots of a path
LeadingDots(s) ==
    CHOOSE k \in 0..Len(s) :
      /\ \A i \in 1..k : s[i] = Dot
      /\ k = Len(s) \/ s[k + 1] # Dot

\* the path without its leading dots
Stripped(s) == SubSeq(s, LeadingDots(s) + 1, Len(s))

\* C30: import_level is the number of leading dots of the module path, and
\* module_name_noprefix, module_basename and submodule_names are those of
\* the path without them, the same as a specification declared with that
\* path reports at level 0
C30_LevelAndStrippedPath ==
    last.op = "props" =>
      LET v == last.value
          imp == imports[v.index]
          t == Stripped(imp.module_name)
          plain == [imp EXCEPT !.module_name = t]
      IN /\ v.import_level = LeadingDots(imp.module_name)
         /\ v.path = t
         /\ t # << >> => v.name = t[1]
         /\ v.name = module_basename(plain)
         /\ v.submodule_names = submodule_names(plain)
         /\ \A j \in 1..Len(imports) :
              imports[j].module_name = t =>
                /\ import_level(imports[j]) = 0
                /\ module_name_noprefix(imports[j]) = v.path
                /\ module_basename(imports[j]) = v.name
                /\ submodule_names(imports[j]) = v.submodule_names

\* the properties of a specification two levels up were read, next to one
\* declared with the stripped path
C30_Witness ==
    /\ last.op = "props"
    /\ last.value.import_level = 2
    /\ \E j \in 1..Len(imports) : imports[j].module_name = last.value.path

(***************************************************************************)
(* TryExceptFromImport against the statement of its docstring.             *)
(***************************************************************************)
\* "from <name> import <attr>" in world w: __import__ with the fromlist,
\* then the attribute of the module returned; a name the module lacks is
\* an ImportError ("cannot import name")
FromStatement(w, name, attr, globs) ==
    LET r == import_(w, lstrip(name), globs, << attr >>, CountLeadingDots(name))
        a == getattr(World(r), r.obj.path, attr)
    IN  IF r.exc # "none" THEN [exc |-> r.exc, obj |-> NoObj, w |-> World(r), fallback |-> FALSE]
        ELSE IF a.exc # "none"
          THEN [exc |-> "ImportError", obj |-> NoObj, w |-> World(r), fallback |-> FALSE]
        ELSE [exc |-> "none", obj |-> a.obj, w |-> World(r), fallback |-> FALSE]

\* "try: from <module_name> import <attribute_name> as <asname>
\*  except ImportError: from <except_module> import <except_attribute> as <asname>"
TryStatement(imp, globs, w) ==
    LET first == FromStatement(w, imp.module_name, imp.attribute_name, globs)
    IN  IF first.exc = "ImportError"
          THEN [FromStatement(first.w, imp.except_module, imp.except_attribute, globs)
                  EXCEPT !.fallback = TRUE]
          ELSE first

\* C31: where the try statement of the docstring binds the attribute of
\* the fallback module, resolving the TryExceptFromImport binds it too, and
\* where the statement raises, resolving raises
C31_LikeTryStatement ==
    [][ (/\ last'.op = "getattr" /\ last'.called
         /\ importers'.table[last'.name].cls = "TryExceptFromImport") =>
          LET imp == importers'.table[last'.name]
              st == TryStatement(imp, globals_, world)
          IN  /\ (st.exc = "none" /\ st.fallback) =>
                   /\ last'.exc = "none"
                   /\ last'.value = st.obj
                   /\ dict' = [n \in DOMAIN dict \cup {imp.asname} |->
                                 IF n = imp.asname THEN st.obj ELSE dict[n]]
              /\ st.exc # "none" => last'.exc # "none" ]_vars

(***************************************************************************)
(* The walk over the submodule names of a ModuleImport with a bound name.  *)
(***************************************************************************)
\* the walk of specification imp fails in the state before the step: the
\* path loads, and a module on the way lacks the next segment
WalkFails(imp, globs) ==
    LET r == import_(world, module_name_noprefix(imp), globs, << >>, import_level(imp))
    IN  /\ r.exc = "none"
        /\ WalkSubmodules(r, r.obj, submodule_names(imp)).exc # "none"

\* C32: a read of a ModuleImport with a bound name whose walk over the
\* remaining segments meets an absent segment fails with a not-found error
\* (an ImportError) and binds nothing
C32_WalkRaisesNotFound ==
    [][ (/\ last'.op = "getattr" /\ last'.called
         /\ importers'.table[last'.name].cls = "ModuleImport"
         /\ importers'.table[last'.name].asname # None
         /\ WalkFails(importers'.table[last'.name], globals_)) =>
          /\ last'.exc = "ImportError"
          /\ dict' = dict ]_vars

(***************************************************************************)
(* The table the grouper builds.                                           *)
(***************************************************************************)
\* the base segments of the plain ModuleImports of a list
PlainBases(imps) == { imps[i].module_name[1] : i \in { k \in 1..Len(imps) : IsPlain(imps[k]) } }

\* the paths the plain ModuleImports of a list declare under a base segment,
\* the base itself left out
PlainPaths(imps, base) ==
    { imps[i].module_name :
        i \in { k \in 1..Len(imps) :
                  /\ IsPlain(imps[k])
                  /\ imps[k].module_name[1] = base
                  /\ imps[k].module_name # << base >> } }

\* C33: in the table the grouper stored, the plain ModuleImports that share
\* a base segment are one _SubmoduleImports under that segment whose
\* submodules are the distinct declared paths other than the base itself,
\* every specification with a bound name is the entry of each name it
\* binds, and the table has no other key
C33_GroupedTable ==
    importers.set =>
      /\ \A base \in PlainBases(imports) :
           /\ base \in DOMAIN table
           /\ table[base].cls = "_SubmoduleImports"
           /\ table[base].module_name = << base >>
           /\ table[base].submodules = PlainPaths(imports, base)
      /\ \A i \in 1..Len(imports) :
           ~IsPlain(imports[i]) =>
             \A k \in 1..Len(Binds(imports[i])) :
               /\ Binds(imports[i])[k] \in DOMAIN table
               /\ table[Binds(imports[i])[k]] = imports[i]
      /\ \A key \in DOMAIN table :
           \/ key \in PlainBases(imports)
           \/ \E i \in 1..Len(imports) : ~IsPlain(imports[i]) /\ BindsName(imports[i], key)

\* two plain ModuleImports of one base are one entry with both paths
C33_Witness ==
    /\ importers.set
    /\ \E base \in PlainBases(imports) : Cardinality(table[base].submodules) = 2

\* the lists that hold the items of list s in another order
Reordered(s) ==
    { [i \in 1..Len(s) |-> s[f[i]]] :
        f \in { g \in [1..Len(s) -> 1..Len(s)] : \A i, j \in 1..Len(s) : g[i] = g[j] => i = j } }

\* the grouper rejected the container's list at the last operation
RejectedNow ==
    /\ last.op \in {"init", "getattr", "_importers"}
    /\ last.exc = "ValueError"
    /\ ~last.called

\* C34: the grouper gives every reordering of the container's list the
\* outcome it gave the list: the table that was stored, or ValueError
C34_OrderIndependent ==
    \A p \in Reordered(imports) :
      /\ importers.set =>
           /\ group_importers(p, globals_).exc = "none"
           /\ group_importers(p, globals_).importers = table
      /\ RejectedNow => group_importers(p, globals_).exc = "ValueError"

\* a table was stored for a list that declares a plain ModuleImport first
\* and a specification with a bound name after it
C34_Witness ==
    /\ importers.set
    /\ Len(imports) >= 2
    /\ IsPlain(imports[1])
    /\ ~IsPlain(imports[2])

(***************************************************************************)
(* The stored table.                                                       *)
(***************************************************************************)
\* C35: the first operation that reads the table of a list the grouper
\* accepts stores the grouper's table on the container; a table is stored
\* by such an operation (or the constructor) only; and a stored table is
\* the container's table at every later step, reads that resolve a name
\* included
C35_TableBuiltOnce ==
    [][ /\ importers.set => importers' = importers
        /\ (~importers.set /\ importers'.set) =>
             /\ last'.op \in TableOps
             /\ Grouped.exc = "none"
             /\ importers'.table = Grouped.importers
        /\ (~importers.set /\ last'.op \in TableOps /\ Grouped.exc = "none") =>
             importers'.set ]_vars

\* a listing after a name was resolved: the name is bound and still a key
\* of the table
C35_Witness ==
    /\ importers.set
    /\ last.op \in {"dir", "get_importer_state"}
    /\ \E n \in DOMAIN dict : n \in DOMAIN table /\ ncalls[n] > 0

(***************************************************************************)
(* Requests the recording function does not keep.                          *)
(***************************************************************************)
\* C36: while a recording function is installed, a request of other code
\* (its globals are not the captured globals, or are not its locals) is
\* answered by the function saved at entry, with that function's result and
\* effects, and appends nothing to captured_imports and binds nothing in
\* the module; an import statement of the module's own code appends to
\* captured_imports, binds placeholders and loads nothing
C36_OthersPassThrough ==
    [][ /\ last'.op = "import_call" =>
             LET v == last'.value
                 saved == cap[builtins_import].previous_import_func
                 real == import_(world, v.path, v.frame.f_globals, v.fromlist, 0)
             IN  /\ cap' = cap
                 /\ namespace' = namespace
                 /\ saved = RealImport =>
                      /\ last'.exc = real.exc
                      /\ v.obj = real.obj
                      /\ sys_modules' = real.sys
                      /\ attached' = real.att
                 /\ saved = OtherImport =>
                      /\ last'.exc = "none"
                      /\ v.obj = OtherResult
                      /\ sys_modules' = sys_modules
        /\ last'.op = "import" =>
             /\ Len(cap'[builtins_import].captured_imports)
                  > Len(cap[builtins_import].captured_imports)
             /\ sys_modules' = sys_modules
             /\ \A k \in DOMAIN namespace'.val :
                  (k \notin DOMAIN namespace.val \/ namespace'.val[k] # namespace.val[k]) =>
                    /\ namespace'.val[k].kind = "placeholder"
                    /\ namespace'.val[k].capturer = builtins_import ]_vars

\* a function of the module imported tomli through the recording function,
\* which had recorded a statement of the block before
C36_Witness ==
    /\ last.op = "import_call"
    /\ last.exc = "none"
    /\ last.value.frame = Frame(ModuleGlobals, FunctionLocals)
    /\ last.value.obj = ModuleObj(tomli)
    /\ tomli \in sys_modules
    /\ builtins_import \in Capturers
    /\ cap[builtins_import].captured_imports # << >>

(***************************************************************************)
(* The namespace after __exit__.                                           *)
(***************************************************************************)
\* v is a placeholder made by the recording function of instance c
OwnPlaceholder(v, c) == v.kind = "placeholder" /\ v.capturer = c

\* the entries of the appended specifications that bind name k: a
\* ModuleImport (position i, 0) or a pair of a MultiFromImport (i, j)
EntriesFor(k) ==
    UNION { IF Appended[i].cls = "ModuleImport"
              THEN IF Appended[i].asname = k THEN {<< i, 0 >>} ELSE {}
              ELSE { << i, j >> : j \in { n \in 1..Len(Appended[i].attrib_names) :
                                             Appended[i].attrib_names[n].asname = k } }
            : i \in 1..Len(Appended) }

\* C37: when __exit__ of a scope does not raise CaptureError, no name of
\* the namespace is bound to a placeholder of the scope any more; each
\* name that was is deleted and is bound by exactly one entry of the
\* specifications appended (a ModuleImport or one pair of a
\* MultiFromImport), which have no other entry; every other binding is as
\* it was
C37_PlaceholdersReplaced ==
    [][\A c \in Capturers :
         (ExitStep(c) /\ last'.exc # "CaptureError") =>
           /\ \A k \in DOMAIN namespace'.val : ~OwnPlaceholder(namespace'.val[k], c)
           /\ \A k \in DOMAIN namespace.val :
                IF OwnPlaceholder(namespace.val[k], c)
                  THEN /\ k \notin DOMAIN namespace'.val
                       /\ Cardinality(EntriesFor(k)) = 1
                  ELSE /\ k \in DOMAIN namespace'.val
                       /\ namespace'.val[k] = namespace.val[k]
           /\ \A i \in 1..Len(Appended) :
                /\ Appended[i].cls \in {"ModuleImport", "MultiFromImport"}
                /\ Appended[i].cls = "ModuleImport" =>
                     /\ Appended[i].asname \in DOMAIN namespace.val
                     /\ OwnPlaceholder(namespace.val[Appended[i].asname], c)
                /\ \A j \in 1..Len(Appended[i].attrib_names) :
                     /\ Appended[i].attrib_names[j].asname \in DOMAIN namespace.val
                     /\ OwnPlaceholder(namespace.val[Appended[i].attrib_names[j].asname], c)]_vars

\* a scope ended whose block had bound a module and a name imported from
\* a module; both names are gone and the module's own names are in place
C37_Witness ==
    /\ last.op = "exit" /\ last.exc = "none"
    /\ Len(block) = 2
    /\ block[1].attrib = None /\ block[2].attrib # None
    /\ block[1].key # block[2].key
    /\ block[1].key \notin DOMAIN namespace.val
    /\ block[2].key \notin DOMAIN namespace.val
    /\ "__name__" \in DOMAIN namespace.val


\* the outcomes << exc, value >> of "container.<name>" when no other thread
\* reads the container
ReadAlone(name) ==
    LET g == group_importers(imports, globals_) IN
    IF g.exc # "none" THEN { << g.exc, ErrorFrom("group_importers", None) >> }
    ELSE IF name \notin DOMAIN g.importers
      THEN { << MissingNameError, ErrorFrom("LazyImporter.__getattr__", ClassName) >> }
    ELSE { LET r == do_import(lookup_importer(g.importers, name), globals_, world, order) IN
             IF r.exc # "none" THEN << r.exc, ErrorFrom("do_import", None) >>
             ELSE IF name \notin DOMAIN r.data
               THEN << "KeyError", ErrorFrom("LazyImporter.__getattr__", None) >>
             ELSE << "none", r.data[name] >> :
           order \in Orders(lookup_importer(g.importers, name).submodules) }

\* C38: whatever the interleaving of two threads' reads of one container,
\* a read that has ended returned or raised what it does alone, and after a
\* read that returned, the name read and every name its do_import produced
\* are bound in the container to the resolved values.
C38_ConcurrentReads ==
    \A t \in Threads :
        threads[t].at = "done" =>
          /\ << threads[t].exc, threads[t].value >> \in ReadAlone(threads[t].name)
          /\ threads[t].exc = "none" =>
                /\ threads[t].name \in DOMAIN dict
                /\ dict[threads[t].name] = threads[t].value
                /\ \A key \in DOMAIN threads[t].import_data :
                      /\ key \in DOMAIN dict
                      /\ dict[key] = threads[t].import_data[key]

\* both threads made the first read of one name when the table was not
\* built: both grouped, both ran do_import, both returned
C38_Witness ==
    /\ \A t \in Threads :
          /\ threads[t].at = "done"
          /\ threads[t].exc = "none"
          /\ threads[t].grouped
          /\ threads[t].import_data # << >>
    /\ threads["T1"].name = threads["T2"].name
    /\ ncalls[threads["T1"].name] = 2
    /\ Cardinality(DOMAIN threads["T1"].import_data) = 2


\* no scope is inside its block
NoScopeOpen == \A c \in Capturers : cap[c].at # "block"

\* C39: when every capture scope of the module has exited, nested or
\* overlapping, builtins.__import__ is the function that was installed
\* before any of them entered, never the recording function of a scope.
C39_OverlapRestoresDefault == NoScopeOpen => builtins_import = RealImport


\* C40: a read that resolves a name leaves the specification list, the
\* relative context and the lookup table as they were (the table as the
\* grouper gives it, when the read was the first to build it) and keeps
\* every binding the container had; the bindings it adds are names its
\* do_import returned.
C40_ReadKeepsFields ==
    [][last'.op = "getattr" /\ last'.called =>
         /\ replaced_fields(dict') = {}
         /\ imports' = imports
         /\ globals_' = globals_
         /\ importers'.set => importers'.table = get_importers.importers
         /\ \A n \in DOMAIN dict : n \in DOMAIN dict' /\ dict'[n] = dict[n]
         /\ DOMAIN dict' \ DOMAIN dict \subseteq last'.bound]_vars

====
